---- MODULE Spec2Model ----
(***************************************************************************)
(* State machines of the robot audio recorder's supervisors and of its     *)
(* page application:                                                       *)
(*   - launcher.js           (class RobotAudioRecorderLauncher)  : Spec    *)
(*   - headless-launcher.js  (startApp / reconnect / monitor)    : SpecH   *)
(*   - the page application  (class RobotAudioRecorderApp)       : SpecA   *)
(*   - the CORS gateway, HTTP (part_007)            : SpecG, SpecG2        *)
(*   - the CORS gateway, one bridged WebSocket      : SpecW                *)
(*   - headless-launcher.js, lines 351-914 (improved launcher)   : SpecI   *)
(* Node's event loop runs one callback at a time, so every action below is *)
(* the code that runs between two awaits of one async function, or one     *)
(* timer / event callback up to its first await. The three awaits of one   *)
(* attempt of navigateWithRetry() change no field and are one step.        *)
(***************************************************************************)
EXTENDS Integers, Sequences, FiniteSets, Bags, TLC

Null == 0
Alive == 0 - 1

\* ---- bounds of the model ------------------------------------------------
\* failures (failed polls, crashes, rejections, startup errors) the
\* environment produces in one run of launcher.js
MaxFailures == 2
\* largest MAX_RETRIES the configurations of launcher.js range over
MaxCfgRetries == 1
\* largest MAX_RECONNECT_ATTEMPTS the configurations of headless-launcher.js
\* range over
MaxCfgReconnects == 2
\* browsers headless-launcher.js launches in one run
MaxLaunches == 3
\* monitor polls of headless-launcher.js that end in reconnect() in one run
MaxLostPolls == 2
\* Disconnected events rooms of the page application emit in one run
MaxDisconnects == 2
\* clicks on the page's Retry button in one run
MaxRetryClicks == 2
\* token requests of the page application that fail in one run
MaxTokenFailures == 1
\* largest maxConnectionAttempts the page's configurations range over
MaxCfgAttempts == 2

BagAdd(B, e) == B (+) SetToBag({e})
BagRemove(B, e) == B (-) SetToBag({e})

(***************************************************************************)
(* launcher.js                                                             *)
(***************************************************************************)
VARIABLES
    autoRestart,     \* config.autoRestart
    maxRetries,      \* config.maxRetries
    browser,         \* this.browser: Null or the id of a launched browser
    page,            \* this.page: Null or the id of the browser the page is of
    httpServer,      \* this.httpServer: Null or the id of a spawned process
    isRunning,       \* this.isRunning
    restartCount,    \* this.restartCount
    openBrowsers,    \* browsers launched by launchBrowser() and not closed
    launched,        \* number of browsers launched so far
    liveServers,     \* http-server processes spawned and not killed
    spawned,         \* number of http-server processes spawned (= start() calls)
    intervals,       \* health-check intervals installed (none is ever cleared)
    restartTimers,   \* pending setTimeout(() => this.start(), 60000)
    tasks,           \* the async invocations in flight, a bag of records
    exitCode,        \* Alive, or the code given to process.exit
    shutdownInvoked, \* shutdown() was called
    called,          \* what the last step called, of cleanup / close / kill,
                     \* and "again" for a cleanup() right after a cleanup()
    justCleaned,     \* a cleanup() call returned and nothing has assigned
                     \* this.browser or this.httpServer since
    cleanupThrew,    \* an exception escaped cleanup()
    failures,        \* failures detected so far
    loggedOnly       \* failures whose handler only wrote a log line

\* config.retryDelay, in milliseconds
VARIABLE retryDelay

cfgVars == <<autoRestart, maxRetries, retryDelay>>
fieldVars == <<browser, page, httpServer, isRunning, restartCount>>
envVars == <<openBrowsers, launched, liveServers, spawned>>
histVars == <<shutdownInvoked, called, justCleaned, cleanupThrew, failures,
              loggedOnly>>
launcherVars == <<cfgVars, fieldVars, envVars, intervals, restartTimers, tasks,
                  exitCode, histVars>>

VARIABLES
    program,         \* the script this node process runs
    polled,          \* the firing of a health-check interval in the last
                     \* step, if it was one: what it found, how the callback
                     \* ended, whether it called restart()
    navSeen          \* the end of navigateWithRetry() in the last step, if
                     \* it was one: how it ended ("ready" or "threw"), what
                     \* the last attempt had observed, the calls of
                     \* page.goto and the waits of retryDelay it made, the
                     \* number in the error

\* the last step was no health poll
NoPoll == [seen |-> "none", outcome |-> "none", restarted |-> FALSE]

\* the last step did not end navigateWithRetry(); observed is what a
\* successful attempt had waited for, in order
NoNav == [outcome |-> "none", observed |-> <<>>, attempts |-> 0, waits |-> 0,
          said |-> 0]


\* one async invocation: its function, where it waits, the browser whose
\* close() it awaits, the process it spawned, the retries of
\* navigateWithRetry, the calls of page.goto and the waits of retryDelay so
\* far
Task(k, pc) ==
    [kind |-> k, pc |-> pc, b |-> Null, srv |-> Null, retries |-> 0,
     gotos |-> 0, waits |-> 0]

\* the state after the constructor, under configuration (a, m)
LauncherConstructed(a, m) ==
    /\ autoRestart = a
    /\ maxRetries = m
    /\ browser = Null
    /\ page = Null
    /\ httpServer = Null
    /\ isRunning = FALSE
    /\ restartCount = 0
    /\ openBrowsers = {}
    /\ launched = 0
    /\ liveServers = {}
    /\ spawned = 0
    /\ intervals = 0
    /\ restartTimers = 0
    /\ tasks = EmptyBag
    /\ exitCode = Alive
    /\ shutdownInvoked = FALSE
    /\ called = {}
    /\ justCleaned = FALSE
    /\ cleanupThrew = FALSE
    /\ failures = 0
    /\ loggedOnly = 0

\* retryDelay: parseInt(process.env.RETRY_DELAY) || 60000
DefaultRetryDelay == 60000

\* the values of config.retryDelay: RETRY_DELAY unset, or set to 5 s or 120 s
RetryDelays == {DefaultRetryDelay, 5000, 120000}

\* RETRY_DELAY is not set
InitLauncher ==
    /\ \E a \in BOOLEAN, m \in 1..MaxCfgRetries : LauncherConstructed(a, m)
    /\ retryDelay = DefaultRetryDelay
    /\ polled = NoPoll
    /\ navSeen = NoNav

\* RETRY_DELAY is set or not
InitLauncherDelay ==
    /\ \E a \in BOOLEAN, m \in 1..MaxCfgRetries : LauncherConstructed(a, m)
    /\ retryDelay \in RetryDelays
    /\ polled = NoPoll
    /\ navSeen = NoNav

\* ---- cleanup(), src/launcher.js 375-398 --------------------------------

\* mutant: cleanup() leaves the closed browser in this.browser
BrowserAfterClose_Kept(b) == b

\* this.browser = null, after the close
BrowserAfterClose(b) == Null

\* this.httpServer = null, after the kill
ServerAfterKill(s) == Null

\* the try/catch around await this.browser.close()
CatchesCloseError == TRUE

\* the httpServer part of cleanup(), synchronous; c is what the step called
\* before it
KillServer(c) ==
    IF httpServer # Null
    THEN /\ httpServer' = ServerAfterKill(httpServer)
         /\ liveServers' = liveServers \ {httpServer}
         /\ called' = c \cup {"kill"}
    ELSE /\ UNCHANGED <<httpServer, liveServers>>
         /\ called' = c

\* marks a cleanup() call that comes straight after a finished cleanup()
Again == IF justCleaned THEN {"again"} ELSE {}

\* cleanup() called by an invocation of kind k, up to its first await: with a
\* browser it waits for browser.close(); with none it runs to its end.
\* rest is the bag of the other invocations
CleanupCall(rest, k) ==
    /\ isRunning' = FALSE
    /\ UNCHANGED cleanupThrew
    /\ IF browser # Null
       THEN /\ tasks' = BagAdd(rest, [Task(k, "closing") EXCEPT !.b = browser])
            /\ called' = Again \cup {"cleanup", "close"}
            /\ justCleaned' = FALSE
            /\ UNCHANGED <<browser, httpServer, liveServers>>
       ELSE /\ tasks' = BagAdd(rest, Task(k, "cleaned"))
            /\ KillServer(Again \cup {"cleanup"})
            /\ justCleaned' = TRUE
            /\ UNCHANGED browser

\* browser.close() settles and cleanup() runs to its end; close() may reject
\* when the browser was closed already (by another cleanup())
CloseDone(r) ==
    /\ exitCode = Alive
    /\ r.pc = "closing"
    /\ \E resolved \in BOOLEAN :
        /\ ~resolved => r.b \notin openBrowsers
        /\ cleanupThrew' = (cleanupThrew \/ (~resolved /\ ~CatchesCloseError))
    /\ openBrowsers' = openBrowsers \ {r.b}
    /\ browser' = BrowserAfterClose(browser)
    /\ KillServer({})
    /\ tasks' = BagAdd(BagRemove(tasks, r), Task(r.kind, "cleaned"))
    /\ justCleaned' = TRUE
    /\ UNCHANGED <<cfgVars, page, isRunning, restartCount, launched, spawned,
                   intervals, restartTimers, exitCode, shutdownInvoked,
                   failures, loggedOnly>>

\* ---- start(), src/launcher.js 312-355 ------------------------------------

\* start() up to the await inside startHttpServer(): the process is spawned
StartCall ==
    /\ isRunning' = TRUE
    /\ spawned' = spawned + 1
    /\ liveServers' = liveServers \cup {spawned + 1}
    /\ tasks' = BagAdd(tasks, [Task("start", "httpWait") EXCEPT !.srv = spawned + 1])
    /\ called' = {}

\* launcher.start() at the end of the script
Main ==
    /\ exitCode = Alive
    /\ spawned = 0
    /\ StartCall
    /\ UNCHANGED <<cfgVars, browser, page, httpServer, restartCount,
                   openBrowsers, launched, intervals, restartTimers, exitCode,
                   shutdownInvoked, justCleaned, cleanupThrew, failures,
                   loggedOnly>>

\* the 3 s timer of startHttpServer(): this.httpServer = serverProcess, then
\* the request of checkWebsiteAccessibility() is sent
HttpServerReady(r) ==
    /\ exitCode = Alive
    /\ r.pc = "httpWait"
    /\ httpServer' = r.srv
    /\ tasks' = BagAdd(BagRemove(tasks, r), Task("start", "access"))
    /\ justCleaned' = FALSE
    /\ called' = {}
    /\ UNCHANGED <<cfgVars, browser, page, isRunning, restartCount, envVars,
                   intervals, restartTimers, exitCode, shutdownInvoked,
                   cleanupThrew, failures, loggedOnly>>

\* the catch of start(): await this.cleanup()
StartCatch(r) ==
    /\ failures < MaxFailures
    /\ failures' = failures + 1
    /\ CleanupCall(BagRemove(tasks, r), "start")
    /\ UNCHANGED <<cfgVars, page, restartCount, openBrowsers, launched, spawned,
                   intervals, restartTimers, exitCode, shutdownInvoked,
                   loggedOnly>>

\* checkWebsiteAccessibility() answers 200
WebsiteAccessible(r) ==
    /\ exitCode = Alive
    /\ r.pc = "access"
    /\ tasks' = BagAdd(BagRemove(tasks, r), Task("start", "launching"))
    /\ called' = {}
    /\ UNCHANGED <<cfgVars, fieldVars, envVars, intervals, restartTimers,
                   exitCode, shutdownInvoked, justCleaned, cleanupThrew,
                   failures, loggedOnly>>

\* checkWebsiteAccessibility() answers anything else, or nothing
WebsiteNotAccessible(r) ==
    /\ exitCode = Alive
    /\ r.pc = "access"
    /\ StartCatch(r)

\* puppeteer.launch() resolves: this.browser = the new browser; newPage() gives
\* this.page, and setupPageMonitoring() puts the 'error' handler on it
LaunchBrowserOk(r) ==
    /\ exitCode = Alive
    /\ r.pc = "launching"
    /\ launched' = launched + 1
    /\ openBrowsers' = openBrowsers \cup {launched + 1}
    /\ browser' = launched + 1
    /\ page' = launched + 1
    /\ tasks' = BagAdd(BagRemove(tasks, r),
                       [Task("start", "nav") EXCEPT !.gotos = 1])
    /\ justCleaned' = FALSE
    /\ called' = {}
    /\ UNCHANGED <<cfgVars, httpServer, isRunning, restartCount, liveServers,
                   spawned, intervals, restartTimers, exitCode, shutdownInvoked,
                   cleanupThrew, failures, loggedOnly>>

\* puppeteer.launch() rejects
LaunchBrowserFail(r) ==
    /\ exitCode = Alive
    /\ r.pc = "launching"
    /\ StartCatch(r)

PageClosed == page = Null \/ page \notin openBrowsers

\* what an attempt of navigateWithRetry() waits for, in the order of its
\* awaits: page.goto (the page's load), waitForSelector('.container'),
\* waitForFunction(() => window.app && window.app.configService)
NavStages == <<"load", ".container", "window.app.configService">>

\* mutant: the attempt returns after the DOM marker
LastStage_Early == Len(NavStages) - 1

\* the await after which the try block of navigateWithRetry() ends
LastStage == Len(NavStages)

\* what the attempt has observed when its n-th await resolved
Observed(n) == SubSeq(NavStages, 1, n)

\* the awaits of an attempt resolve one after the other, up to the last:
\* navigateWithRetry() returns, injectConfiguration() succeeds;
\* setupHealthCheck() installs its interval and start() returns. The awaits
\* of an attempt change no field of the launcher, so an attempt is one step
NavigateOk(r) ==
    /\ exitCode = Alive
    /\ r.pc = "nav"
    /\ ~PageClosed
    /\ intervals' = intervals + 1
    /\ tasks' = BagRemove(tasks, r)
    /\ called' = {}
    /\ navSeen' = [outcome |-> "ready", observed |-> Observed(LastStage),
                   attempts |-> r.gotos, waits |-> r.waits, said |-> 0]
    /\ UNCHANGED <<cfgVars, fieldVars, envVars, restartTimers, exitCode,
                   shutdownInvoked, justCleaned, cleanupThrew, failures,
                   loggedOnly>>

\* mutant: one retry fewer
MayRetryNav_OneFewer(retries, m) == retries + 1 < m

\* retries < config.maxRetries
MayRetryNav(retries, m) == retries < m

\* one of the awaits of the attempt rejects (a timeout, or an error of the
\* page; the one catch serves the three) and retries < config.maxRetries:
\* the catch waits retryDelay, then return this.navigateWithRetry(retries + 1)
\* runs up to its page.goto
NavigateRetry(r) ==
    /\ exitCode = Alive
    /\ r.pc = "nav"
    /\ MayRetryNav(r.retries, maxRetries)
    /\ tasks' = BagAdd(BagRemove(tasks, r),
                       [r EXCEPT !.retries = @ + 1, !.waits = @ + 1,
                                 !.gotos = @ + 1])
    /\ called' = {}
    /\ UNCHANGED <<cfgVars, fieldVars, envVars, intervals, restartTimers,
                   exitCode, shutdownInvoked, justCleaned, cleanupThrew,
                   failures, loggedOnly>>

\* one of the awaits of the last attempt rejects: the catch throws 'Failed
\* to navigate after ${config.maxRetries} attempts' to start()
NavigateFail(r) ==
    /\ exitCode = Alive
    /\ r.pc = "nav"
    /\ ~MayRetryNav(r.retries, maxRetries)
    /\ navSeen' = [outcome |-> "threw", observed |-> <<>>,
                   attempts |-> r.gotos, waits |-> r.waits,
                   said |-> maxRetries]
    /\ StartCatch(r)

\* ---- restart(), src/launcher.js 360-370 ----------------------------------

\* restart() up to the await inside cleanup()
RestartCall(rest) ==
    /\ restartCount' = restartCount + 1
    /\ CleanupCall(rest, "restart")

\* whether restart() arms its timer, whatever this.restartCount is
RestartSchedules == TRUE

\* setTimeout(() => { this.start(); }, 60000): the wait of restart()
RestartWait == 60000

\* what follows "await this.cleanup()" in restart(), in shutdown() and in the
\* catch of start()
Cleaned(r) ==
    /\ exitCode = Alive
    /\ r.pc = "cleaned"
    /\ CASE r.kind = "restart" ->
              /\ restartTimers' = IF RestartSchedules THEN restartTimers + 1
                                                      ELSE restartTimers
              /\ tasks' = BagRemove(tasks, r)
              /\ called' = {}
              /\ UNCHANGED <<cfgVars, fieldVars, envVars, intervals, exitCode,
                             shutdownInvoked, justCleaned, cleanupThrew,
                             failures, loggedOnly>>
         [] r.kind = "shutdown" ->
              /\ exitCode' = 0
              /\ called' = {}
              /\ UNCHANGED <<cfgVars, fieldVars, envVars, intervals,
                             restartTimers, tasks, shutdownInvoked,
                             justCleaned, cleanupThrew, failures, loggedOnly>>
         [] r.kind = "start" ->
              IF autoRestart
              THEN /\ RestartCall(BagRemove(tasks, r))
                   /\ UNCHANGED <<cfgVars, page, openBrowsers, launched,
                                  spawned, intervals, restartTimers, exitCode,
                                  shutdownInvoked, failures, loggedOnly>>
              ELSE /\ exitCode' = 1
                   /\ called' = {}
                   /\ UNCHANGED <<cfgVars, fieldVars, envVars, intervals,
                                  restartTimers, tasks, shutdownInvoked,
                                  justCleaned, cleanupThrew, failures,
                                  loggedOnly>>

\* the 60 s timer of restart() fires: this.start()
RestartTimer ==
    /\ exitCode = Alive
    /\ restartTimers > 0
    /\ restartTimers' = restartTimers - 1
    /\ StartCall
    /\ UNCHANGED <<cfgVars, browser, page, httpServer, restartCount,
                   openBrowsers, launched, intervals, exitCode, shutdownInvoked,
                   justCleaned, cleanupThrew, failures, loggedOnly>>

\* ---- failure handlers ----------------------------------------------------

\* mutant: a failed health check is only logged
HealthFail_OnlyLogs == FALSE

\* if (config.autoRestart) this.restart("Health check failed")
HealthFailRestarts == autoRestart

\* if (config.autoRestart) this.restart("Page crashed")
CrashRestarts == autoRestart

\* if (config.autoRestart) launcher.restart("Unhandled rejection")
RejectionRestarts == autoRestart

\* a failure handler outside start(): restart() or only a log line
Failure(restarts) ==
    /\ exitCode = Alive
    /\ failures < MaxFailures
    /\ failures' = failures + 1
    /\ IF restarts
       THEN /\ RestartCall(tasks)
            /\ UNCHANGED <<cfgVars, page, openBrowsers, launched, spawned,
                           intervals, restartTimers, exitCode, shutdownInvoked,
                           loggedOnly>>
       ELSE /\ loggedOnly' = loggedOnly + 1
            /\ called' = {}
            /\ UNCHANGED <<cfgVars, fieldVars, envVars, intervals,
                           restartTimers, tasks, exitCode, shutdownInvoked,
                           justCleaned, cleanupThrew>>

\* what one firing of the interval callback can find: the page is null or
\* closed; page.evaluate() rejects; window.app.isConnected is false or true;
\* window.app is not there yet
PollFindings == {"closed", "unresponsive", "disconnected", "connected", "loading"}

\* the findings on which the try block throws: "Page is closed", or the
\* rejection of page.evaluate(); every other finding logs "Health check passed"
PollThrows(seen) == seen \in {"closed", "unresponsive"}

\* mutant: the page is read outside the try block
PollCatches_Not == FALSE

\* the try/catch of the interval callback encloses every access to the page
PollCatches == TRUE

\* one firing of a health-check interval that passes
HealthCheckPass ==
    /\ exitCode = Alive
    /\ intervals > 0
    /\ ~PageClosed
    /\ \E seen \in PollFindings \ {"closed"} :
        /\ ~PollThrows(seen)
        /\ polled' = [seen |-> seen, outcome |-> "passed", restarted |-> FALSE]
    /\ called' = {}
    /\ UNCHANGED <<cfgVars, fieldVars, envVars, intervals, restartTimers, tasks,
                   exitCode, shutdownInvoked, justCleaned, cleanupThrew,
                   failures, loggedOnly>>

\* one firing of a health-check interval that throws: the page is null or
\* closed, or page.evaluate() rejects
HealthCheckFail ==
    /\ intervals > 0
    /\ \E seen \in PollFindings :
        /\ (seen = "closed") <=> PageClosed
        /\ PollThrows(seen)
        /\ IF PollCatches
           THEN /\ Failure(HealthFailRestarts)
                /\ polled' = [seen |-> seen, outcome |-> "failed",
                              restarted |-> HealthFailRestarts]
           ELSE /\ Failure(RejectionRestarts)
                /\ polled' = [seen |-> seen, outcome |-> "escaped",
                              restarted |-> RejectionRestarts]

\* the 'error' event of a page (the page crashed); every page start() made
\* carries the handler
PageCrash ==
    /\ openBrowsers # {}
    /\ Failure(CrashRestarts)

\* the process's 'unhandledRejection' event
UnhandledRejection ==
    /\ openBrowsers # {}
    /\ Failure(RejectionRestarts)

\* ---- shutdown(), src/launcher.js 403-407 ---------------------------------

\* SIGINT or SIGTERM: shutdown() up to the await inside cleanup()
Shutdown ==
    /\ exitCode = Alive
    /\ spawned > 0
    /\ ~shutdownInvoked
    /\ shutdownInvoked' = TRUE
    /\ CleanupCall(tasks, "shutdown")
    /\ UNCHANGED <<cfgVars, page, restartCount, openBrowsers, launched, spawned,
                   intervals, restartTimers, exitCode, failures, loggedOnly>>

(***************************************************************************)
(* headless-launcher.js, lines 1-349                                       *)
(***************************************************************************)
VARIABLES
    keepAlive,            \* config.keepAlive
    maxReconnectAttempts, \* config.maxReconnectAttempts
    hBrowser,             \* browser: Null or the id of a launched browser
    hPage,                \* page: Null or the id of the browser it is of
    reconnectAttempts,    \* reconnectAttempts
    hOpen,                \* browsers launched and not closed
    hLaunched,            \* number of browsers launched so far
    hIntervals,           \* monitor intervals installed (none is ever cleared)
    hTimers,              \* pending setTimeout(reconnect, reconnectDelay)
    hTasks,               \* the async invocations in flight, a bag of records
    hExit,                \* Alive, or the code given to process.exit
    hSignalled,           \* SIGINT or SIGTERM was received
    onlyNavFail,          \* so far every session ended in a failed navigation
                          \* and nothing else went wrong
    waited,               \* a reconnectDelay wait armed after the last launch
                          \* has run out
    gapOk,                \* every launch but the first came after such a wait
    lostPolls             \* monitor polls that ended in reconnect() so far

headlessVars == <<keepAlive, maxReconnectAttempts, hBrowser, hPage,
                  reconnectAttempts, hOpen, hLaunched, hIntervals, hTimers,
                  hTasks, hExit, hSignalled, onlyNavFail, waited, gapOk,
                  lostPolls>>

VARIABLES
    hPolled          \* the firing of a monitor interval in the last step,
                     \* if it was one: what it found, how the callback ended

\* the last step was no monitor poll
HNoPoll == [seen |-> "none", outcome |-> "none"]

\* one async invocation: where it waits, the browser whose close() it awaits,
\* and the number of launches when its delay was armed
HTask(pc) == [pc |-> pc, b |-> Null, armedAt |-> 0]

\* the state when the script starts, under configuration (k, m)
HeadlessLoaded(k, m) ==
    /\ keepAlive = k
    /\ maxReconnectAttempts = m
    /\ hBrowser = Null
    /\ hPage = Null
    /\ reconnectAttempts = 0
    /\ hOpen = {}
    /\ hLaunched = 0
    /\ hIntervals = 0
    /\ hTimers = 0
    /\ hTasks = EmptyBag
    /\ hExit = Alive
    /\ hSignalled = FALSE
    /\ onlyNavFail = TRUE
    /\ waited = FALSE
    /\ gapOk = TRUE
    /\ lostPolls = 0

InitHeadless ==
    /\ \E k \in BOOLEAN, m \in 1..MaxCfgReconnects : HeadlessLoaded(k, m)
    /\ hPolled = HNoPoll

\* startApp() called, up to the await of puppeteer.launch()
StartAppCall(rest) == hTasks' = BagAdd(rest, HTask("launching"))

\* startApp() at the end of the script
HMain ==
    /\ hExit = Alive
    /\ hLaunched = 0
    /\ hTasks = EmptyBag
    /\ hTimers = 0
    /\ ~hSignalled
    /\ StartAppCall(hTasks)
    /\ UNCHANGED <<keepAlive, maxReconnectAttempts, hBrowser, hPage,
                   reconnectAttempts, hOpen, hLaunched, hIntervals, hTimers,
                   hExit, hSignalled, onlyNavFail, waited, gapOk, lostPolls>>

\* mutant: reconnect() gives up one attempt late
ReconnectGivesUp_Late(a, m) == a > m

\* mutant: reconnect() gives up with one attempt left
ReconnectGivesUp_Early(a, m) == a + 1 >= m

\* if (reconnectAttempts >= config.maxReconnectAttempts) process.exit(1)
ReconnectGivesUp(a, m) == a >= m

\* reconnectAttempts++
NextAttempt(a) == a + 1

\* reconnect() called, up to its first await: it gives up, or counts the
\* attempt and closes the browser, or (with no browser) starts the delay
ReconnectCall(rest) ==
    IF ReconnectGivesUp(reconnectAttempts, maxReconnectAttempts)
    THEN /\ hExit' = 1
         /\ UNCHANGED <<reconnectAttempts, hTasks>>
    ELSE /\ reconnectAttempts' = NextAttempt(reconnectAttempts)
         /\ hExit' = hExit
         /\ IF hBrowser # Null
            THEN hTasks' = BagAdd(rest, [HTask("closing") EXCEPT !.b = hBrowser])
            ELSE hTasks' = BagAdd(rest, [HTask("delay") EXCEPT !.armedAt = hLaunched])

\* mutant: the catch of startApp() gives up one attempt early
MayRestart_OneEarly(a, m) == keepAlive /\ a + 1 < m

\* config.keepAlive && reconnectAttempts < config.maxReconnectAttempts
MayRestart(a, m) == keepAlive /\ a < m

\* the catch of startApp(): reconnect() or process.exit(1)
StartAppCatch(rest) ==
    IF MayRestart(reconnectAttempts, maxReconnectAttempts)
    THEN ReconnectCall(rest)
    ELSE /\ hExit' = 1
         /\ UNCHANGED <<reconnectAttempts, hTasks>>

\* puppeteer.launch() resolves: browser = the new browser, setupPage() takes
\* its first page; navigateToApp() starts
HLaunchOk(r) ==
    /\ hExit = Alive
    /\ r.pc = "launching"
    /\ hLaunched < MaxLaunches
    /\ hLaunched' = hLaunched + 1
    /\ hOpen' = hOpen \cup {hLaunched + 1}
    /\ hBrowser' = hLaunched + 1
    /\ hPage' = hLaunched + 1
    /\ hTasks' = BagAdd(BagRemove(hTasks, r), HTask("nav"))
    /\ gapOk' = (gapOk /\ (hLaunched = 0 \/ waited))
    /\ waited' = FALSE
    /\ UNCHANGED <<keepAlive, maxReconnectAttempts, reconnectAttempts,
                   hIntervals, hTimers, hExit, hSignalled, onlyNavFail, lostPolls>>

\* puppeteer.launch() rejects
HLaunchFail(r) ==
    /\ hExit = Alive
    /\ r.pc = "launching"
    /\ StartAppCatch(BagRemove(hTasks, r))
    /\ onlyNavFail' = FALSE
    /\ UNCHANGED <<keepAlive, maxReconnectAttempts, hBrowser, hPage, hOpen,
                   hLaunched, hIntervals, hTimers, hSignalled, waited, gapOk, lostPolls>>

HPageClosed == hPage = Null \/ hPage \notin hOpen

\* navigateToApp() returns true; waitForConnection() starts
HNavigateOk(r) ==
    /\ hExit = Alive
    /\ r.pc = "nav"
    /\ ~HPageClosed
    /\ hTasks' = BagAdd(BagRemove(hTasks, r), HTask("conn"))
    /\ onlyNavFail' = FALSE
    /\ UNCHANGED <<keepAlive, maxReconnectAttempts, hBrowser, hPage,
                   reconnectAttempts, hOpen, hLaunched, hIntervals, hTimers,
                   hExit, hSignalled, waited, gapOk, lostPolls>>

\* navigateToApp() returns false: startApp() throws "Failed to navigate"
HNavigateFail(r) ==
    /\ hExit = Alive
    /\ r.pc = "nav"
    /\ StartAppCatch(BagRemove(hTasks, r))
    /\ UNCHANGED <<keepAlive, maxReconnectAttempts, hBrowser, hPage, hOpen,
                   hLaunched, hIntervals, hTimers, hSignalled, onlyNavFail,
                   waited, gapOk, lostPolls>>

\* waitForConnection() returns true; with keepAlive monitorConnection()
\* installs its interval; startApp() returns
HConnectOk(r) ==
    /\ hExit = Alive
    /\ r.pc = "conn"
    /\ ~HPageClosed
    /\ hIntervals' = IF keepAlive THEN hIntervals + 1 ELSE hIntervals
    /\ hTasks' = BagRemove(hTasks, r)
    /\ UNCHANGED <<keepAlive, maxReconnectAttempts, hBrowser, hPage,
                   reconnectAttempts, hOpen, hLaunched, hTimers, hExit,
                   hSignalled, onlyNavFail, waited, gapOk, lostPolls>>

\* waitForConnection() returns false: startApp() throws
HConnectFail(r) ==
    /\ hExit = Alive
    /\ r.pc = "conn"
    /\ StartAppCatch(BagRemove(hTasks, r))
    /\ UNCHANGED <<keepAlive, maxReconnectAttempts, hBrowser, hPage, hOpen,
                   hLaunched, hIntervals, hTimers, hSignalled, onlyNavFail,
                   waited, gapOk, lostPolls>>

\* reconnect(): browser.close() resolves and the reconnectDelay wait starts
HCloseOk(r) ==
    /\ hExit = Alive
    /\ r.pc = "closing"
    /\ hOpen' = hOpen \ {r.b}
    /\ hTasks' = BagAdd(BagRemove(hTasks, r),
                        [HTask("delay") EXCEPT !.armedAt = hLaunched])
    /\ UNCHANGED <<keepAlive, maxReconnectAttempts, hBrowser, hPage,
                   reconnectAttempts, hLaunched, hIntervals, hTimers, hExit,
                   hSignalled, onlyNavFail, waited, gapOk, lostPolls>>

\* reconnect(): browser.close() rejects (the browser was closed already); the
\* catch arms setTimeout(reconnect, config.reconnectDelay)
HCloseFail(r) ==
    /\ hExit = Alive
    /\ r.pc = "closing"
    /\ r.b \notin hOpen
    /\ hTimers' = hTimers + 1
    /\ hTasks' = BagRemove(hTasks, r)
    /\ onlyNavFail' = FALSE
    /\ UNCHANGED <<keepAlive, maxReconnectAttempts, hBrowser, hPage,
                   reconnectAttempts, hOpen, hLaunched, hIntervals, hExit,
                   hSignalled, waited, gapOk, lostPolls>>

\* whether reconnect() waits config.reconnectDelay before startApp()
WaitsBeforeRestart == TRUE

\* reconnect(): the reconnectDelay wait runs out; await startApp()
HDelayDone(r) ==
    /\ hExit = Alive
    /\ r.pc = "delay"
    /\ StartAppCall(BagRemove(hTasks, r))
    /\ waited' = (waited \/ (WaitsBeforeRestart /\ r.armedAt = hLaunched))
    /\ UNCHANGED <<keepAlive, maxReconnectAttempts, hBrowser, hPage,
                   reconnectAttempts, hOpen, hLaunched, hIntervals, hTimers,
                   hExit, hSignalled, onlyNavFail, gapOk, lostPolls>>

\* the timer armed by the catch of reconnect() fires
HReconnectTimer ==
    /\ hExit = Alive
    /\ hTimers > 0
    /\ hTimers' = hTimers - 1
    /\ ReconnectCall(hTasks)
    /\ UNCHANGED <<keepAlive, maxReconnectAttempts, hBrowser, hPage, hOpen,
                   hLaunched, hIntervals, hSignalled, onlyNavFail, waited,
                   gapOk, lostPolls>>

\* the try/catch of the monitor callback encloses page.$eval()
HPollCatches == TRUE

\* one firing of a monitor interval that ends in reconnect(): the page is
\* null or closed, #connection-status reads 'Disconnected', or $eval throws
HMonitorReconnect ==
    /\ hExit = Alive
    /\ hIntervals > 0
    /\ lostPolls < MaxLostPolls
    /\ lostPolls' = lostPolls + 1
    /\ \E seen \in {"closed", "disconnected", "threw"} :
        /\ (seen = "closed") <=> HPageClosed
        /\ IF seen = "threw" /\ ~HPollCatches
           THEN /\ hExit' = 1
                /\ hPolled' = [seen |-> seen, outcome |-> "escaped"]
                /\ UNCHANGED <<reconnectAttempts, hTasks>>
           ELSE /\ ReconnectCall(hTasks)
                /\ hPolled' = [seen |-> seen, outcome |-> "reconnect"]
    /\ UNCHANGED <<keepAlive, maxReconnectAttempts, hBrowser, hPage, hOpen,
                   hLaunched, hIntervals, hTimers, hSignalled, onlyNavFail,
                   waited, gapOk>>

\* one firing of a monitor interval that finds the page connected:
\* reconnectAttempts = 0
HMonitorHealthy ==
    /\ hExit = Alive
    /\ hIntervals > 0
    /\ ~HPageClosed
    /\ reconnectAttempts' = 0
    /\ hPolled' = [seen |-> "connected", outcome |-> "healthy"]
    /\ UNCHANGED <<keepAlive, maxReconnectAttempts, hBrowser, hPage, hOpen,
                   hLaunched, hIntervals, hTimers, hTasks, hExit, hSignalled,
                   onlyNavFail, waited, gapOk, lostPolls>>

\* SIGINT or SIGTERM: browser.close() is awaited if there is a browser
HSignal ==
    /\ hExit = Alive
    /\ ~hSignalled
    /\ hSignalled' = TRUE
    /\ onlyNavFail' = FALSE
    /\ IF hBrowser # Null
       THEN /\ hTasks' = BagAdd(hTasks, [HTask("sigclosing") EXCEPT !.b = hBrowser])
            /\ hExit' = hExit
       ELSE /\ hExit' = 0
            /\ hTasks' = hTasks
    /\ UNCHANGED <<keepAlive, maxReconnectAttempts, hBrowser, hPage,
                   reconnectAttempts, hOpen, hLaunched, hIntervals, hTimers,
                   waited, gapOk, lostPolls>>

\* the signal handler's browser.close() resolves: process.exit(0)
HSignalExit(r) ==
    /\ hExit = Alive
    /\ r.pc = "sigclosing"
    /\ hOpen' = hOpen \ {r.b}
    /\ hExit' = 0
    /\ UNCHANGED <<keepAlive, maxReconnectAttempts, hBrowser, hPage,
                   reconnectAttempts, hLaunched, hIntervals, hTimers, hTasks,
                   hSignalled, onlyNavFail, waited, gapOk, lostPolls>>

(***************************************************************************)
(* The page application: class RobotAudioRecorderApp                       *)
(***************************************************************************)
VARIABLES
    maxConnectionAttempts, \* this.maxConnectionAttempts
    participantName,  \* this.participantName: 0 for '', else the ordinal of the
                      \* generateParticipantInfo() call that produced the name
    generated,        \* number of generateParticipantInfo() calls so far
    room,             \* this.room: Null or the id of a LivekitClient.Room
    rooms,            \* number of Room objects created so far
    liveRooms,        \* rooms that are connected
    isConnected,      \* this.isConnected
    connectionAttempts, \* this.connectionAttempts
    reconnectTimeout, \* this.reconnectTimeout holds a pending timer
    aTasks,           \* the async invocations in flight, a bag of records
    tokenName,        \* participantName of the last getToken() request
    prevTokenName,    \* participantName of the getToken() request before it
    joins,            \* number of joinRoom() calls that asked for a token
    lastJoinBy,       \* what made the last joinRoom() call
    disconnects,      \* Disconnected events so far
    retryClicks,      \* clicks on Retry so far
    tokenFailures     \* failed token requests so far

appVars == <<maxConnectionAttempts, participantName, generated, room, rooms,
             liveRooms, isConnected, connectionAttempts, reconnectTimeout,
             aTasks, tokenName, prevTokenName, joins, lastJoinBy, disconnects,
             retryClicks, tokenFailures>>

VARIABLES
    reconnectDelay,   \* appConfig.reconnectDelay, 0 if the configuration has none
    armed             \* the timers handleDisconnection() armed, in order: the
                      \* connectionAttempts and the delay of each

backoffVars == <<reconnectDelay, armed>>

\* values of appConfig.reconnectDelay
ReconnectDelays == {0, 1000}

\* ConfigService.getReconnectDelay()
getReconnectDelay(cfg) == IF cfg = 0 THEN 5000 ELSE cfg

\* one async invocation: its function, where it waits and the room it holds
ATask(fn, pc, rm) == [fn |-> fn, pc |-> pc, room |-> rm]

\* the state after the constructor, under configuration m
AppConstructed(m) ==
    /\ maxConnectionAttempts = m
    /\ participantName = 0
    /\ generated = 0
    /\ room = Null
    /\ rooms = 0
    /\ liveRooms = {}
    /\ isConnected = FALSE
    /\ connectionAttempts = 0
    /\ reconnectTimeout = FALSE
    /\ aTasks = EmptyBag
    /\ tokenName = 0
    /\ prevTokenName = 0
    /\ joins = 0
    /\ lastJoinBy = "none"
    /\ disconnects = 0
    /\ retryClicks = 0
    /\ tokenFailures = 0

InitApp ==
    /\ \E m \in 1..MaxCfgAttempts : AppConstructed(m)
    /\ reconnectDelay \in ReconnectDelays
    /\ armed = <<>>

\* joinRoom() up to its first await: getToken(this.roomName, name) is sent
JoinRoomCall(rest, name, by) ==
    /\ aTasks' = BagAdd(rest, ATask("joinRoom", "token", Null))
    /\ prevTokenName' = tokenName
    /\ tokenName' = name
    /\ joins' = joins + 1
    /\ lastJoinBy' = by

\* init(): loadConfiguration() generates the first name, then joinRoom()
AppInit ==
    /\ generated = 0
    /\ generated' = 1
    /\ participantName' = 1
    /\ JoinRoomCall(aTasks, 1, "init")
    /\ UNCHANGED <<maxConnectionAttempts, room, rooms, liveRooms, isConnected,
                   connectionAttempts, reconnectTimeout, disconnects,
                   retryClicks, tokenFailures>>

\* getToken() resolves: this.room = new Room(), room.connect() is awaited
TokenOk(r) ==
    /\ r.pc = "token"
    /\ rooms' = rooms + 1
    /\ room' = rooms + 1
    /\ aTasks' = BagAdd(BagRemove(aTasks, r), ATask("joinRoom", "connecting", rooms + 1))
    /\ UNCHANGED <<maxConnectionAttempts, participantName, generated, liveRooms,
                   isConnected, connectionAttempts, reconnectTimeout, tokenName,
                   prevTokenName, joins, lastJoinBy, disconnects, retryClicks,
                   tokenFailures>>

\* getToken() rejects: handleConnectionError() shows the error
TokenFail(r) ==
    /\ r.pc = "token"
    /\ tokenFailures < MaxTokenFailures
    /\ tokenFailures' = tokenFailures + 1
    /\ isConnected' = FALSE
    /\ aTasks' = BagRemove(aTasks, r)
    /\ UNCHANGED <<maxConnectionAttempts, participantName, generated, room,
                   rooms, liveRooms, connectionAttempts, reconnectTimeout,
                   tokenName, prevTokenName, joins, lastJoinBy, disconnects,
                   retryClicks>>

\* room.connect() resolves
ConnectOk(r) ==
    /\ r.pc = "connecting"
    /\ liveRooms' = liveRooms \cup {r.room}
    /\ isConnected' = TRUE
    /\ connectionAttempts' = 0
    /\ aTasks' = BagRemove(aTasks, r)
    /\ UNCHANGED <<maxConnectionAttempts, participantName, generated, room,
                   rooms, reconnectTimeout, tokenName, prevTokenName, joins,
                   lastJoinBy, disconnects, retryClicks, tokenFailures>>

\* generateParticipantInfo() as the last statement of leaveRoom(): the
\* ordinal of the name it leaves in this.participantName
NameAfterLeave(n, g) == g + 1

\* handleDisconnection(), on a room's Disconnected event
RoomDisconnected ==
    /\ disconnects < MaxDisconnects
    /\ \E rm \in liveRooms : liveRooms' = liveRooms \ {rm}
    /\ disconnects' = disconnects + 1
    /\ isConnected' = FALSE
    /\ IF connectionAttempts < maxConnectionAttempts
       THEN /\ connectionAttempts' = connectionAttempts + 1
            /\ reconnectTimeout' = TRUE
            /\ armed' = Append(armed,
                                [attempt |-> connectionAttempts + 1,
                                 delay |-> getReconnectDelay(reconnectDelay)])
       ELSE /\ connectionAttempts' = 0
            /\ UNCHANGED <<reconnectTimeout, armed>>
    /\ UNCHANGED reconnectDelay
    /\ UNCHANGED <<maxConnectionAttempts, participantName, generated, room,
                   rooms, aTasks, tokenName, prevTokenName, joins, lastJoinBy,
                   retryClicks, tokenFailures>>

\* the timer of handleDisconnection() fires: "this.leaveRoom();" is not
\* awaited, so it runs to its first await (room.disconnect(), when there is a
\* room) and joinRoom() is called straight away
ReconnectTimerFires ==
    /\ reconnectTimeout
    /\ reconnectTimeout' = FALSE
    /\ IF room # Null
       THEN /\ JoinRoomCall(BagAdd(aTasks, ATask("leaveRoom", "disconnecting", room)),
                            participantName, "timer")
            /\ UNCHANGED <<participantName, generated, room, isConnected,
                           connectionAttempts>>
       ELSE /\ isConnected' = FALSE
            /\ connectionAttempts' = 0
            /\ room' = Null
            /\ generated' = generated + 1
            /\ participantName' = NameAfterLeave(participantName, generated)
            /\ JoinRoomCall(aTasks, participantName', "timer")
    /\ UNCHANGED <<maxConnectionAttempts, rooms, liveRooms, disconnects,
                   retryClicks, tokenFailures>>

\* room.disconnect() settles and leaveRoom() runs to its end; retryConnection()
\* awaited it and calls joinRoom() next
LeaveDone(r) ==
    /\ r.pc = "disconnecting"
    /\ liveRooms' = liveRooms \ {r.room}
    /\ isConnected' = FALSE
    /\ connectionAttempts' = 0
    /\ room' = Null
    /\ generated' = generated + 1
    /\ participantName' = NameAfterLeave(participantName, generated)
    /\ IF r.fn = "retry"
       THEN JoinRoomCall(BagRemove(aTasks, r), participantName', "retry")
       ELSE /\ aTasks' = BagRemove(aTasks, r)
            /\ UNCHANGED <<tokenName, prevTokenName, joins, lastJoinBy>>
    /\ UNCHANGED <<maxConnectionAttempts, rooms, reconnectTimeout, disconnects,
                   retryClicks, tokenFailures>>

\* retryConnection(), on a click on Retry: await leaveRoom(), then joinRoom()
RetryClick ==
    /\ generated > 0
    /\ retryClicks < MaxRetryClicks
    /\ retryClicks' = retryClicks + 1
    /\ reconnectTimeout' = FALSE
    /\ IF room # Null
       THEN /\ aTasks' = BagAdd(aTasks, ATask("retry", "disconnecting", room))
            /\ connectionAttempts' = 0
            /\ UNCHANGED <<participantName, generated, room, isConnected,
                           tokenName, prevTokenName, joins, lastJoinBy>>
       ELSE /\ isConnected' = FALSE
            /\ connectionAttempts' = 0
            /\ room' = Null
            /\ generated' = generated + 1
            /\ participantName' = NameAfterLeave(participantName, generated)
            /\ JoinRoomCall(aTasks, participantName', "retry")
    /\ UNCHANGED <<maxConnectionAttempts, rooms, liveRooms, disconnects,
                   tokenFailures>>

(***************************************************************************)
(* The CORS gateway (src/unnamed/part_007): HTTP requests. The file holds   *)
(* two variants of the gateway: lines 1-270 with the WebSocket bridge, the *)
(* local health route and the proxy timeout, lines 272-416 without them.   *)
(***************************************************************************)
\* ---- bounds ---------------------------------------------------------------
\* chunks in the path of a request
MaxPathLen == 3

VARIABLES
    gPhase,      \* "idle", "proxying" (upstream request sent), "piping"
                 \* (the upstream's response is piped to the client),
                 \* "reading" (fs.readFile pending) or "sent" (response
                 \* ended)
    gReq,        \* the request: method, pathname, search
    gForwarded,  \* proxyRequest() was called for the request
    gTarget,     \* targetPath given to proxyRequest(), <<>> if none
    gFile,       \* the file serveStaticFile() reads, "" if none
    gRes,        \* the response: statusCode, headers, body
    gOnDisk,     \* what fs found at the path of a static request, "" if none
    gErrTarget,  \* the member "target" of the JSON error body, <<>> if none
    gHeadersSent,\* res.headersSent: the head of the response was written
    gStalled,    \* the upstream took the request and will never answer
    gTimedOut,   \* the upstream request emitted 'timeout'
    gAlive       \* the gateway's process runs

gatewayVars == <<gPhase, gReq, gForwarded, gTarget, gFile, gRes, gOnDisk,
                 gErrTarget, gHeadersSent, gStalled, gTimedOut, gAlive>>

\* the two variants of the gateway
FirstVariant == "simple-proxy"
SecondVariant == "simple-proxy without WebSocket"

TARGET_SERVER == "https://arcs-openvidu-vm.eastasia.cloudapp.azure.com"

\* a pathname is a sequence of chunks; its string is their concatenation.
\* No chunk is a prefix of another, so startsWith() on the strings is the
\* prefix relation on the sequences
PathChunks == {"/api", "/application-server", "/health", "/local-health", "/x", "x"}

Root == <<"/">>

Pathnames ==
    {Root} \cup
    UNION {{p \in [1..n -> PathChunks] : p[1] # "x"} : n \in 1..MaxPathLen}

Methods == {"GET", "POST", "OPTIONS"}

\* parsedUrl.search: null without a query, else the query with its "?"
Searches == {"", "?a=1"}

NoRequest == [method |-> "", pathname |-> <<>>, search |-> ""]

\* res before the handler touches it: statusCode 200, no header
NoHeaders == [acao |-> "", acam |-> "", acah |-> "", ctype |-> ""]
FreshRes == [status |-> 200, headers |-> NoHeaders, body |-> ""]

AllowMethods == "GET, POST, PUT, DELETE, OPTIONS"
AllowHeaders == "Origin, X-Requested-With, Content-Type, Accept, Authorization"

\* setCorsHeaders(res)
setCorsHeaders(h) ==
    [h EXCEPT !.acao = "*", !.acam = AllowMethods, !.acah = AllowHeaders]

\* String.prototype.startsWith
StartsWith(p, pre) == Len(p) >= Len(pre) /\ SubSeq(p, 1, Len(pre)) = pre

\* (parsedUrl.search || '')
SearchOrEmpty(q) == IF q = "" THEN <<>> ELSE <<q>>

\* mutant: no request counts as a preflight
IsPreflight_Never(m) == FALSE

\* req.method === 'OPTIONS'
IsPreflight(m) == m = "OPTIONS"

\* mutant: the query is not forwarded
ShortApiTarget_NoQuery(p, q) == <<"/application-server">> \o p

\* '/application-server' + pathname + (parsedUrl.search || '')
ShortApiTarget(p, q) == <<"/application-server">> \o p \o SearchOrEmpty(q)

\* pathname + (parsedUrl.search || '')
FullApiTarget(p, q) == p \o SearchOrEmpty(q)

\* mutant: any path that names health is a health check of the upstream
IsHealthPath_Contains(p) ==
    \E i \in 1..Len(p) : p[i] \in {"/health", "/local-health"}

\* pathname.startsWith('/health')
IsHealthPath(p) == StartsWith(p, <<"/health">>)

\* the branch of the request handler that serves (m, p), in the handler's
\* order of tests
Route(m, p) ==
    IF IsPreflight(m) THEN "preflight"
    ELSE IF StartsWith(p, <<"/api">>) THEN "api"
    ELSE IF StartsWith(p, <<"/application-server", "/api">>) THEN "full-api"
    ELSE IF IsHealthPath(p) THEN "health"
    ELSE IF StartsWith(p, <<"/application-server", "/health">>) THEN "full-health"
    ELSE IF p = <<"/local-health">> THEN "local-health"
    ELSE "static"

\* the same for the second variant, whose handler has no test for
\* /local-health
Route2(m, p) ==
    IF IsPreflight(m) THEN "preflight"
    ELSE IF StartsWith(p, <<"/api">>) THEN "api"
    ELSE IF StartsWith(p, <<"/application-server", "/api">>) THEN "full-api"
    ELSE IF IsHealthPath(p) THEN "health"
    ELSE IF StartsWith(p, <<"/application-server", "/health">>) THEN "full-health"
    ELSE "static"

\* mutant: the path of the request is read whatever fs finds there
ServedFile_NoFallback(p, onDisk) == "pathname"

\* filePath: path.join(__dirname, pathname), or index.html if
\* pathname === '/' || !fs.existsSync(filePath) || fs.statSync(filePath).isDirectory()
ServedFile(p, onDisk) ==
    IF p = Root \/ onDisk = "missing" \/ onDisk = "directory"
    THEN "index.html" ELSE "pathname"

\* the targetPath of each proxying branch
TargetPath(route, p, q) ==
    CASE route = "api" -> ShortApiTarget(p, q)
      [] route = "full-api" -> FullApiTarget(p, q)
      [] route = "health" -> <<"/application-server", "/health">>
      [] route = "full-health" -> p
      [] OTHER -> <<>>

GatewayListening ==
    /\ gPhase = "idle"
    /\ gReq = NoRequest
    /\ gForwarded = FALSE
    /\ gTarget = <<>>
    /\ gFile = ""
    /\ gRes = FreshRes
    /\ gOnDisk = ""
    /\ gErrTarget = <<>>
    /\ gHeadersSent = FALSE
    /\ gStalled = FALSE
    /\ gTimedOut = FALSE
    /\ gAlive = TRUE

\* the request handler of http.createServer, for a request (m, p, q); onDisk
\* is what fs finds at path.join(__dirname, pathname)
Request(m, p, q, onDisk) ==
    /\ gAlive
    /\ gPhase = "idle"
    /\ gReq' = [method |-> m, pathname |-> p, search |-> q]
    /\ LET route == IF program = SecondVariant THEN Route2(m, p)
                    ELSE Route(m, p) IN
       CASE route = "preflight" ->
              /\ gRes' = [FreshRes EXCEPT !.headers = setCorsHeaders(@),
                                          !.status = 200]
              /\ gPhase' = "sent"
              /\ gHeadersSent' = TRUE
              /\ UNCHANGED <<gForwarded, gTarget, gFile, gOnDisk>>
         [] route \in {"api", "full-api", "health", "full-health"} ->
              /\ gForwarded' = TRUE
              /\ gTarget' = TargetPath(route, p, q)
              /\ gPhase' = "proxying"
              /\ UNCHANGED <<gFile, gRes, gOnDisk, gHeadersSent>>
         [] route = "local-health" ->
              /\ gRes' = [FreshRes EXCEPT
                              !.headers = [setCorsHeaders(@) EXCEPT
                                               !.ctype = "application/json"],
                              !.body = "configuration"]
              /\ gPhase' = "sent"
              /\ gHeadersSent' = TRUE
              /\ UNCHANGED <<gForwarded, gTarget, gFile, gOnDisk>>
         [] OTHER ->
              /\ gFile' = ServedFile(p, onDisk)
              /\ gOnDisk' = onDisk
              /\ gPhase' = "reading"
              /\ UNCHANGED <<gForwarded, gTarget, gRes, gHeadersSent>>
    /\ UNCHANGED <<gErrTarget, gStalled, gTimedOut, gAlive>>

\* the headers of an upstream response: each is absent ("") or has the
\* upstream's value
UpstreamHeaders ==
    [acao : {"", "https://upstream"}, acam : {"", "GET"}, acah : {""},
     ctype : {"application/json"}]

\* Object.keys(proxyRes.headers).forEach: every header but
\* access-control-allow-origin is copied over the response's
CopyHeaders(h, u) ==
    [k \in DOMAIN h |-> IF k # "acao" /\ u[k] # "" THEN u[k] ELSE h[k]]

\* the callback of https.request: the upstream answered; its status and
\* headers are set on res and proxyRes.pipe(res) starts
UpstreamResponse(st, u) ==
    /\ gAlive
    /\ gPhase = "proxying"
    /\ ~gStalled
    /\ gRes' = [status |-> st,
                headers |-> CopyHeaders(setCorsHeaders(gRes.headers), u),
                body |-> ""]
    /\ gPhase' = "piping"
    /\ UNCHANGED <<gReq, gForwarded, gTarget, gFile, gOnDisk, gErrTarget,
                   gHeadersSent, gStalled, gTimedOut, gAlive>>

\* proxyRes.pipe(res), a chunk of the body: res.write() sends the head of
\* the response with the first one
UpstreamData ==
    /\ gAlive
    /\ gPhase = "piping"
    /\ ~gHeadersSent
    /\ gHeadersSent' = TRUE
    /\ gRes' = [gRes EXCEPT !.body = "upstream"]
    /\ UNCHANGED <<gPhase, gReq, gForwarded, gTarget, gFile, gOnDisk,
                   gErrTarget, gStalled, gTimedOut, gAlive>>

\* proxyRes.pipe(res), the end of the body: res.end()
UpstreamEnd ==
    /\ gAlive
    /\ gPhase = "piping"
    /\ gHeadersSent' = TRUE
    /\ gRes' = [gRes EXCEPT !.body = "upstream"]
    /\ gPhase' = "sent"
    /\ UNCHANGED <<gReq, gForwarded, gTarget, gFile, gOnDisk, gErrTarget,
                   gStalled, gTimedOut, gAlive>>

\* the member "target" of the error body: TARGET_SERVER + targetPath in the
\* first variant, absent in the second
ErrorTarget(variant, targetPath) ==
    IF variant = SecondVariant THEN <<>> ELSE <<TARGET_SERVER>> \o targetPath

\* proxy.on('error'): the upstream request failed, before the upstream's
\* response or while it is piped. setCorsHeaders(res) calls res.setHeader(),
\* which throws once the head of the response was written; nothing catches
\* it and the process has no 'uncaughtException' handler
UpstreamError ==
    /\ gAlive
    /\ gPhase \in {"proxying", "piping"}
    /\ ~gStalled
    /\ IF gHeadersSent
       THEN /\ gAlive' = FALSE
            /\ UNCHANGED <<gRes, gPhase, gErrTarget>>
       ELSE /\ gRes' = [status |-> 500,
                        headers |-> setCorsHeaders(gRes.headers),
                        body |-> "proxy-error"]
            /\ gErrTarget' = ErrorTarget(program, gTarget)
            /\ gPhase' = "sent"
            /\ UNCHANGED gAlive
    /\ gHeadersSent' = TRUE
    /\ UNCHANGED <<gReq, gForwarded, gTarget, gFile, gOnDisk, gStalled,
                   gTimedOut>>

\* the upstream accepted the connection and never answers
UpstreamStalls ==
    /\ gAlive
    /\ gPhase = "proxying"
    /\ ~gStalled
    /\ gStalled' = TRUE
    /\ UNCHANGED <<gPhase, gReq, gForwarded, gTarget, gFile, gRes, gOnDisk,
                   gErrTarget, gHeadersSent, gTimedOut, gAlive>>

\* the socket of the upstream request was idle for PROXY_TIMEOUT ms (options
\* .timeout and proxy.setTimeout(timeout), first variant only): the request
\* emits 'timeout', for which no listener is registered, and nothing aborts
\* the request
ProxyTimeout ==
    /\ gAlive
    /\ program = FirstVariant
    /\ gPhase = "proxying"
    /\ gStalled
    /\ ~gTimedOut
    /\ gTimedOut' = TRUE
    /\ UNCHANGED <<gPhase, gReq, gForwarded, gTarget, gFile, gRes, gOnDisk,
                   gErrTarget, gHeadersSent, gStalled, gAlive>>

\* the callback of fs.readFile with the data
FileRead ==
    /\ gAlive
    /\ gPhase = "reading"
    /\ gRes' = [gRes EXCEPT !.headers = [setCorsHeaders(@) EXCEPT
                                             !.ctype = "mime"],
                            !.body = "file"]
    /\ gPhase' = "sent"
    /\ gHeadersSent' = TRUE
    /\ UNCHANGED <<gReq, gForwarded, gTarget, gFile, gOnDisk, gErrTarget,
                   gStalled, gTimedOut, gAlive>>

\* the callback of fs.readFile with an error
FileReadError ==
    /\ gAlive
    /\ gPhase = "reading"
    /\ gRes' = [gRes EXCEPT !.status = 404, !.body = "File not found"]
    /\ gPhase' = "sent"
    /\ gHeadersSent' = TRUE
    /\ UNCHANGED <<gReq, gForwarded, gTarget, gFile, gOnDisk, gErrTarget,
                   gStalled, gTimedOut, gAlive>>

(***************************************************************************)
(* The CORS gateway: one bridged WebSocket                                 *)
(***************************************************************************)
\* ---- bounds ---------------------------------------------------------------
\* messages each side sends over one bridge
MaxMsgs == 2
\* chunks in the path of an upgrade request
MaxUpgradeLen == 2

VARIABLES
    wReq,        \* request.url of the upgrade request, <<>> before it
    wDestroyed,  \* socket.destroy() was called on the upgrade's socket
    wClient,     \* readyState of ws, the client's socket
    wTarget,     \* readyState of targetWs, the socket to the upstream
    wUrl,        \* path and query targetWs was opened with
    wUpstreams,  \* upstream sockets opened so far
    wSentUp,     \* messages the client sent over the open bridge, in order
    wGotUp,      \* messages given to targetWs.send(), in order
    wSentDown,   \* messages the upstream sent, in order
    wGotDown     \* messages given to ws.send(), in order

bridgeVars == <<wReq, wDestroyed, wClient, wTarget, wUrl, wUpstreams, wSentUp,
                wGotUp, wSentDown, wGotDown>>

UpgradeChunks == {"/rtc", "/api", "/x", "x"}

UpgradePaths ==
    UNION {{p \in [1..n -> UpgradeChunks] : p[1] # "x"} : n \in 1..MaxUpgradeLen}

Messages == {"a", "b"}

NoBridge ==
    /\ wReq = <<>>
    /\ wDestroyed = FALSE
    /\ wClient = "none"
    /\ wTarget = "none"
    /\ wUrl = <<>>
    /\ wUpstreams = 0
    /\ wSentUp = <<>>
    /\ wGotUp = <<>>
    /\ wSentDown = <<>>
    /\ wGotDown = <<>>

\* mutant: every upgrade request is taken for an RTC connection
IsRtcPath_Any(p) == TRUE

\* pathname.startsWith('/rtc')
IsRtcPath(p) == StartsWith(p, <<"/rtc">>)

\* server.on('upgrade'), then wss.on('connection') for a path under /rtc
Upgrade(p, q) ==
    /\ wReq = <<>>
    /\ wReq' = p \o SearchOrEmpty(q)
    /\ IF IsRtcPath(p)
       THEN /\ wClient' = "OPEN"
            /\ wTarget' = "CONNECTING"
            /\ wUrl' = p \o SearchOrEmpty(q)
            /\ wUpstreams' = wUpstreams + 1
            /\ UNCHANGED wDestroyed
       ELSE /\ wDestroyed' = TRUE
            /\ UNCHANGED <<wClient, wTarget, wUrl, wUpstreams>>
    /\ UNCHANGED <<wSentUp, wGotUp, wSentDown, wGotDown>>

\* if (targetWs.readyState === WebSocket.OPEN) targetWs.close()
CloseIfOpen(st) == IF st = "OPEN" THEN "CLOSING" ELSE st

\* ws.on('message'): forwarded only to an OPEN targetWs
ClientMessage(m) ==
    /\ wClient = "OPEN"
    /\ Len(wSentUp) < MaxMsgs
    /\ wSentUp' = Append(wSentUp, m)
    /\ wGotUp' = IF wTarget = "OPEN" THEN Append(wGotUp, m) ELSE wGotUp
    /\ UNCHANGED <<wReq, wDestroyed, wClient, wTarget, wUrl, wUpstreams,
                   wSentDown, wGotDown>>

\* targetWs.on('message'): forwarded only to an OPEN ws
TargetMessage(m) ==
    /\ wTarget = "OPEN"
    /\ Len(wSentDown) < MaxMsgs
    /\ wSentDown' = Append(wSentDown, m)
    /\ wGotDown' = IF wClient = "OPEN" THEN Append(wGotDown, m) ELSE wGotDown
    /\ UNCHANGED <<wReq, wDestroyed, wClient, wTarget, wUrl, wUpstreams,
                   wSentUp, wGotUp>>

\* targetWs.on('open')
TargetOpen ==
    /\ wTarget = "CONNECTING"
    /\ wTarget' = "OPEN"
    /\ UNCHANGED <<wReq, wDestroyed, wClient, wUrl, wUpstreams, wSentUp,
                   wGotUp, wSentDown, wGotDown>>

\* ws.on('close'): the client's socket is closed
ClientClose ==
    /\ wClient \in {"OPEN", "CLOSING"}
    /\ wClient' = "CLOSED"
    /\ wTarget' = CloseIfOpen(wTarget)
    /\ UNCHANGED <<wReq, wDestroyed, wUrl, wUpstreams, wSentUp, wGotUp,
                   wSentDown, wGotDown>>

\* ws.on('error'); the socket's 'close' follows
ClientError ==
    /\ wClient = "OPEN"
    /\ wClient' = "CLOSING"
    /\ wTarget' = CloseIfOpen(wTarget)
    /\ UNCHANGED <<wReq, wDestroyed, wUrl, wUpstreams, wSentUp, wGotUp,
                   wSentDown, wGotDown>>

\* targetWs.on('close')
TargetClose ==
    /\ wTarget \in {"CONNECTING", "OPEN", "CLOSING"}
    /\ wTarget' = "CLOSED"
    /\ wClient' = CloseIfOpen(wClient)
    /\ UNCHANGED <<wReq, wDestroyed, wUrl, wUpstreams, wSentUp, wGotUp,
                   wSentDown, wGotDown>>

\* targetWs.on('error'); the socket's 'close' follows
TargetError ==
    /\ wTarget \in {"CONNECTING", "OPEN"}
    /\ wTarget' = "CLOSING"
    /\ wClient' = CloseIfOpen(wClient)
    /\ UNCHANGED <<wReq, wDestroyed, wUrl, wUpstreams, wSentUp, wGotUp,
                   wSentDown, wGotDown>>

(***************************************************************************)
(* headless-launcher.js, lines 351-914 (and its copy src/unnamed/part_001):*)
(* the improved headless launcher, from its start to the browser's launch  *)
(***************************************************************************)
\* ---- bounds ---------------------------------------------------------------
\* largest suffix length set in the environment
MaxSuffixLen == 3

VARIABLES
    iEnv,              \* process.env: ROBOT_ID, PARTICIPANT_NAME_PREFIX,
                       \* PARTICIPANT_NAME_SUFFIX_LENGTH, PARTICIPANT_NAME_GENERATION
    iPc,               \* where the script is: "loaded", "launching",
                       \* "waiting" (before a retry), "launched", "exited"
    iParticipantName,  \* participantName, a sequence of characters
    iNow,              \* the Date.now() the name was made of, Null if none
    iRetryCount,       \* retryCount
    iLaunches,         \* calls of puppeteer.launch()
    iWaits,            \* 2 s waits between launch attempts
    iExit              \* the code given to process.exit(), Alive before it

improvedVars == <<iEnv, iPc, iParticipantName, iNow, iRetryCount, iLaunches,
                  iWaits, iExit>>

\* chars
Chars == <<"a", "b", "c", "d", "e", "f", "g", "h", "i", "j", "k", "l", "m",
           "n", "o", "p", "q", "r", "s", "t", "u", "v", "w", "x", "y", "z",
           "0", "1", "2", "3", "4", "5", "6", "7", "8", "9">>

\* the digits of Number.prototype.toString(36)
Digits36 == <<"0", "1", "2", "3", "4", "5", "6", "7", "8", "9",
              "a", "b", "c", "d", "e", "f", "g", "h", "i", "j", "k", "l", "m",
              "n", "o", "p", "q", "r", "s", "t", "u", "v", "w", "x", "y", "z">>

\* values of ROBOT_ID and of PARTICIPANT_NAME_PREFIX, sequences of
\* characters; <<>> is an unset or empty one
EnvNames == {<<>>, <<"R", "_", "2">>}

\* values of PARTICIPANT_NAME_SUFFIX_LENGTH, sequences of characters: unset,
\* no number, a negative number, 0 .. MaxSuffixLen, a number with a tail
EnvLengths ==
    {<<>>, <<"a", "b", "c">>, <<"-", "1">>, <<"2", "p", "x">>}
        \cup {<<Digits36[n + 1]>> : n \in 0..MaxSuffixLen}

\* values of PARTICIPANT_NAME_GENERATION, each a one-element sequence; <<>>
\* is an unset or empty one
EnvMethods == {<<>>, <<"random">>, <<"timestamp">>, <<"uuid">>}

\* values of Date.now()
Timestamps == {0, 35, 36, 1295, 1296, 1762300800}

\* Math.floor(Math.random() * chars.length): some of 0..35
RandomIndexes == {0, 35}

\* e || d for a value e of the environment
OrDefault(e, d) == IF e = <<>> THEN d ELSE e

IsDigit(c) == \E d \in 0..9 : Digits36[d + 1] = c

DigitValue(c) == CHOOSE d \in 0..9 : Digits36[d + 1] = c

\* the value of the digits at the head of str after the value acc, and
\* whether there was a digit
RECURSIVE ParseDigits(_, _, _)
ParseDigits(str, acc, any) ==
    IF str # <<>> /\ IsDigit(Head(str))
    THEN ParseDigits(Tail(str), 10 * acc + DigitValue(Head(str)), TRUE)
    ELSE [nan |-> ~any, n |-> acc]

\* parseInt(str): an optional sign, then the digits at the head of the
\* string; NaN if there is none (and for undefined)
ParseInt(str) ==
    IF str # <<>> /\ Head(str) = "-"
    THEN [ParseDigits(Tail(str), 0, FALSE) EXCEPT !.n = 0 - @]
    ELSE ParseDigits(str, 0, FALSE)

\* the default of suffixLength
DefaultSuffixLength == 8

\* parseInt(process.env.PARTICIPANT_NAME_SUFFIX_LENGTH) || 8: NaN and 0 are
\* falsy
SuffixLength(e) ==
    IF ParseInt(e).nan \/ ParseInt(e).n = 0 THEN DefaultSuffixLength
    ELSE ParseInt(e).n

\* the length of Array.from({length: n}): ToLength(n), 0 for a negative n
ArrayLength(n) == IF n < 0 THEN 0 ELSE n

\* Number.prototype.toString(36) of a natural number
RECURSIVE ToString36(_)
ToString36(n) ==
    IF n < 36 THEN <<Digits36[n + 1]>>
    ELSE ToString36(n \div 36) \o <<Digits36[(n % 36) + 1]>>

\* the suffixes random mode can make for a suffixLength n: one character
\* chars[Math.floor(Math.random() * chars.length)] for each element
RandomSuffixes(n) ==
    {[i \in 1..ArrayLength(n) |-> Chars[idx[i] + 1]] :
        idx \in [1..ArrayLength(n) -> RandomIndexes]}

\* participantNamePrefix
NamePrefix(env) ==
    OrDefault(env.PARTICIPANT_NAME_PREFIX,
              OrDefault(env.ROBOT_ID,
                        <<"r", "o", "b", "o", "t", "-", "0", "0", "1">>))

\* generationMethod
GenerationMethod(env) ==
    OrDefault(env.PARTICIPANT_NAME_GENERATION, <<"timestamp">>)

\* `${participantNamePrefix}_${suffix}`
NameOf(prefix, suffix) == prefix \o <<"_">> \o suffix

ImprovedLoaded ==
    /\ iPc = "loaded"
    /\ iParticipantName = <<>>
    /\ iNow = Null
    /\ iRetryCount = 0
    /\ iLaunches = 0
    /\ iWaits = 0
    /\ iExit = Alive

InitImproved ==
    /\ iEnv \in [ROBOT_ID : EnvNames, PARTICIPANT_NAME_PREFIX : EnvNames,
                 PARTICIPANT_NAME_SUFFIX_LENGTH : EnvLengths,
                 PARTICIPANT_NAME_GENERATION : EnvMethods]
    /\ ImprovedLoaded

\* maxRetries of the launch loop
LaunchMaxRetries == 3

\* the script from its start to its first await: the name is generated, then
\* the loop calls puppeteer.launch() for the first time
GenerateName ==
    /\ iPc = "loaded"
    /\ IF GenerationMethod(iEnv) = <<"random">>
       THEN /\ \E suffix \in RandomSuffixes(
                                 SuffixLength(iEnv.PARTICIPANT_NAME_SUFFIX_LENGTH)) :
                  iParticipantName' = NameOf(NamePrefix(iEnv), suffix)
            /\ UNCHANGED iNow
       ELSE \E now \in Timestamps :
               /\ iNow' = now
               /\ iParticipantName' = NameOf(NamePrefix(iEnv), ToString36(now))
    /\ iPc' = "launching"
    /\ iLaunches' = iLaunches + 1
    /\ UNCHANGED <<iEnv, iRetryCount, iWaits, iExit>>

\* puppeteer.launch() resolved: break
ImprovedLaunchOk ==
    /\ iPc = "launching"
    /\ iPc' = "launched"
    /\ UNCHANGED <<iEnv, iParticipantName, iNow, iRetryCount, iLaunches,
                   iWaits, iExit>>

\* puppeteer.launch() rejected: the loop's catch counts the failure and, at
\* maxRetries, throws to the script's catch, which exits with 1; else it
\* waits 2 s
ImprovedLaunchFail ==
    /\ iPc = "launching"
    /\ iRetryCount' = iRetryCount + 1
    /\ IF iRetryCount' >= LaunchMaxRetries
       THEN /\ iPc' = "exited"
            /\ iExit' = 1
            /\ UNCHANGED iWaits
       ELSE /\ iPc' = "waiting"
            /\ iWaits' = iWaits + 1
            /\ UNCHANGED iExit
    /\ UNCHANGED <<iEnv, iParticipantName, iNow, iLaunches>>

\* the 2 s wait is over: while (retryCount < maxRetries) launches again
ImprovedRetryLaunch ==
    /\ iPc = "waiting"
    /\ iRetryCount < LaunchMaxRetries
    /\ iPc' = "launching"
    /\ iLaunches' = iLaunches + 1
    /\ UNCHANGED <<iEnv, iParticipantName, iNow, iRetryCount, iWaits, iExit>>

\* everything but the state of launcher.js, of headless-launcher.js, of the
\* page, of the gateway's HTTP side, of its bridge
\* ==== OpenViduV3Service.retryOperation(), src/unnamed/part_002 130-150 ====

\* the largest maxRetries argument
MaxOpRetries == 3

\* rPc: where the call is: "idle" before it, "awaiting" the operation,
\* "waiting" on the timer, "returned" or "threw"
\* rMaxRetries, rDelay: the arguments; rDelay becomes the local variable delay
\* rAttempt: the loop variable; rInvoked: invocations of operation()
\* rOutcomes: how each invocation settled; rWaits: the delays the timer was
\* armed with; rLastError, rResult: lastError and the returned value
VARIABLES rPc, rMaxRetries, rDelay, rAttempt, rInvoked, rOutcomes, rWaits,
          rLastError, rResult

retryVars == <<rPc, rMaxRetries, rDelay, rAttempt, rInvoked, rOutcomes, rWaits,
               rLastError, rResult>>

\* a number of milliseconds as a fraction n / d, so that 1.5 times it is exact
Ms(n) == [n |-> n, d |-> 1]

\* the delay arguments, in milliseconds
OpDelays == {Ms(0), Ms(1000), Ms(250)}

\* what an invocation resolves with, and what it rejects with
OpValues == {"token", "rooms"}
OpErrors == {"NetworkError", "HTTP 500"}

\* let lastError; without an assignment it is undefined
Undefined == "undefined"

\* retryOperation has not been called
RetryIdle ==
    /\ rPc = "idle"
    /\ rMaxRetries = 0
    /\ rDelay = Ms(0)
    /\ rAttempt = 0
    /\ rInvoked = 0
    /\ rOutcomes = <<>>
    /\ rWaits = <<>>
    /\ rLastError = Undefined
    /\ rResult = Undefined

\* a call retryOperation(operation, m, d) about to run
InitRetry ==
    /\ rPc = "idle"
    /\ rMaxRetries \in 0..MaxOpRetries
    /\ rDelay \in OpDelays
    /\ rAttempt = 0
    /\ rInvoked = 0
    /\ rOutcomes = <<>>
    /\ rWaits = <<>>
    /\ rLastError = Undefined
    /\ rResult = Undefined

\* the loop test with attempt = a: the body invokes operation() and awaits
\* it; after the loop, throw lastError
LoopTest(a) ==
    /\ rAttempt' = a
    /\ IF a <= rMaxRetries
       THEN /\ rInvoked' = rInvoked + 1
            /\ rPc' = "awaiting"
       ELSE /\ rPc' = "threw"
            /\ UNCHANGED rInvoked

\* retryOperation(operation, maxRetries, delay) up to its first await
RetryOperationCall ==
    /\ rPc = "idle"
    /\ LoopTest(1)
    /\ UNCHANGED <<rMaxRetries, rDelay, rOutcomes, rWaits, rLastError, rResult>>

\* return await operation(): the operation resolves with v
OperationResolves(v) ==
    /\ rPc = "awaiting"
    /\ rOutcomes' = Append(rOutcomes, [ok |-> TRUE, val |-> v])
    /\ rResult' = v
    /\ rPc' = "returned"
    /\ UNCHANGED <<rMaxRetries, rDelay, rAttempt, rInvoked, rWaits, rLastError>>

\* mutant: the catch waits after every failed attempt
MayWait_Always(attempt, m) == TRUE

\* if (attempt < maxRetries)
MayWait(attempt, m) == attempt < m

\* delay *= 1.5
NextDelay(x) == [n |-> x.n * 3, d |-> x.d * 2]

\* the operation rejects with e: the catch block, up to its await or, without
\* a wait, through attempt++ and the loop test
OperationRejects(e) ==
    /\ rPc = "awaiting"
    /\ rOutcomes' = Append(rOutcomes, [ok |-> FALSE, val |-> e])
    /\ rLastError' = e
    /\ IF MayWait(rAttempt, rMaxRetries)
       THEN /\ rWaits' = Append(rWaits, rDelay)
            /\ rPc' = "waiting"
            /\ UNCHANGED <<rAttempt, rInvoked>>
       ELSE /\ LoopTest(rAttempt + 1)
            /\ UNCHANGED rWaits
    /\ UNCHANGED <<rMaxRetries, rDelay, rResult>>

\* the timer fires: delay *= 1.5, attempt++, the loop test
RetryWaitDone ==
    /\ rPc = "waiting"
    /\ rDelay' = NextDelay(rDelay)
    /\ LoopTest(rAttempt + 1)
    /\ UNCHANGED <<rMaxRetries, rOutcomes, rWaits, rLastError, rResult>>

\* ==== ConfigService, src/unnamed/part_003 5-233, and ======================
\* ==== RobotAudioRecorderApp.loadConfiguration(), part_003 304-322 =========

\* cPc: "constructed" after new ConfigService(), "fetching" while
\* loadConfiguration() awaits loadAppConfig(), "loaded" after it
\* cAppConfig: this.appConfig, by key
\* cStorage: the object under localStorage 'robotAudioRecorderConfig', by key
\* cRemote: what dashboard-config.json holds, by key
\* cLastSet: the last setter call: the method, its key and what the getter
\* returned right after it
VARIABLES cPc, cAppConfig, cStorage, cRemote, cLastSet

configVars == <<cPc, cAppConfig, cStorage, cRemote, cLastSet>>

\* the keys of the configuration the preferences concern; a key an object
\* does not have maps to Absent; values are written as in JSON
PrefKeys == {"speaker", "microphone", "audioDevice", "audioOutputDevice"}
Absent == "undefined"

\* an object without any of the keys
EmptyObject == [k \in PrefKeys |-> Absent]

\* the default this.appConfig of the constructor
DefaultAppConfig ==
    [k \in PrefKeys |->
        CASE k = "speaker" -> "true"
          [] k = "microphone" -> "true"
          [] k = "audioDevice" -> ""
          [] OTHER -> Absent]

\* { ...a, ...b }
Spread(a, b) == [k \in PrefKeys |-> IF b[k] # Absent THEN b[k] ELSE a[k]]

\* the keys of userPrefs in saveLocalConfig()
SavedKeys == {"speaker", "microphone", "audioDevice"}

\* JSON.parse(JSON.stringify(userPrefs)) of saveLocalConfig(): what
\* localStorage holds afterwards
saveLocalConfig(cfg) ==
    [k \in PrefKeys |-> IF k \in SavedKeys THEN cfg[k] ELSE Absent]

\* loadLocalConfig(): the stored object, if any, is spread over appConfig
loadLocalConfig(cfg, stored) == Spread(cfg, stored)

\* loadAppConfig(): this.appConfig = { ...this.appConfig, ...remoteConfig }
MergeRemote(cfg, remote) == Spread(cfg, remote)

\* getSpeakerState, getMicrophoneState, getAudioDevice, getAudioOutputDevice
Getter(k, cfg) ==
    CASE k \in {"speaker", "microphone"} ->
            IF cfg[k] # Absent THEN cfg[k] ELSE "true"
      [] OTHER -> IF cfg[k] \in {Absent, ""} THEN "" ELSE cfg[k]

\* the values a preference takes
PrefValues(k) ==
    IF k \in {"speaker", "microphone"} THEN {"true", "false"}
    ELSE {"", "device-1"}

\* what an earlier session left in localStorage: nothing, or saved preferences
StoredObjects ==
    {EmptyObject} \cup
    {saveLocalConfig(c) : c \in
        {[DefaultAppConfig EXCEPT !["speaker"] = sp, !["audioDevice"] = d] :
            sp \in PrefValues("speaker"), d \in PrefValues("audioDevice")}}

\* what dashboard-config.json says about these keys
RemoteObjects ==
    {[EmptyObject EXCEPT !["speaker"] = sp, !["audioDevice"] = d] :
        sp \in {Absent, "true"}, d \in {Absent, ""}}

NoSetter == [by |-> "none", key |-> "none", got |-> Absent]

\* new ConfigService()
ConfigConstructed ==
    /\ cPc = "constructed"
    /\ cAppConfig = DefaultAppConfig
    /\ cLastSet = NoSetter

ConfigIdle ==
    /\ ConfigConstructed
    /\ cStorage = EmptyObject
    /\ cRemote = EmptyObject

InitConfig ==
    /\ ConfigConstructed
    /\ cStorage \in StoredObjects
    /\ cRemote \in RemoteObjects

\* loadConfiguration() up to its await: this.configService.loadLocalConfig()
\* and the fetches of loadAppConfig()
LoadConfigurationCall ==
    /\ cPc = "constructed"
    /\ cAppConfig' = loadLocalConfig(cAppConfig, cStorage)
    /\ cPc' = "fetching"
    /\ UNCHANGED <<cStorage, cRemote, cLastSet>>

\* response.ok and response.json() resolves: the merge of loadAppConfig()
RemoteConfigLoaded ==
    /\ cPc = "fetching"
    /\ cAppConfig' = MergeRemote(cAppConfig, cRemote)
    /\ cPc' = "loaded"
    /\ UNCHANGED <<cStorage, cRemote, cLastSet>>

\* the fetch fails or answers with an error status: the catch of
\* loadAppConfig() keeps this.appConfig
RemoteConfigFails ==
    /\ cPc = "fetching"
    /\ cPc' = "loaded"
    /\ UNCHANGED <<cAppConfig, cStorage, cRemote, cLastSet>>

\* the setter named by leaves cfg in this.appConfig and calls
\* saveLocalConfig()
SetAndSave(by, k, cfg) ==
    /\ cPc = "loaded"
    /\ cAppConfig' = cfg
    /\ cStorage' = saveLocalConfig(cfg)
    /\ cLastSet' = [by |-> by, key |-> k, got |-> Getter(k, cfg)]
    /\ UNCHANGED <<cPc, cRemote>>

\* updateConfig({ [k]: v })
updateConfig(k, v) ==
    SetAndSave("updateConfig", k,
               Spread(cAppConfig, [EmptyObject EXCEPT ![k] = v]))

\* setAudioDevice(deviceId)
setAudioDevice(deviceId) ==
    SetAndSave("setAudioDevice", "audioDevice",
               [cAppConfig EXCEPT !["audioDevice"] = deviceId])

\* setAudioOutputDevice(deviceId)
setAudioOutputDevice(deviceId) ==
    SetAndSave("setAudioOutputDevice", "audioOutputDevice",
               [cAppConfig EXCEPT !["audioOutputDevice"] = deviceId])

\* the page is reloaded: a fresh ConfigService over the same localStorage
PageReload ==
    /\ cPc = "loaded"
    /\ cPc' = "constructed"
    /\ cAppConfig' = DefaultAppConfig
    /\ UNCHANGED <<cStorage, cRemote, cLastSet>>

\* ==== AudioStreamManager, src/js/audio-stream-manager.js, with ===========
\* ==== handleTrackSubscribed() and muteUnmuteSpeaker() of part_003 =========

\* the number of stream ids
MaxStreams == 2

\* streams: this.streams, the Map from stream id to stream info, with what the
\* info refers to: api is what the stream offers ("publication" for
\* publication.setEnabled, "legacy" for streamManager.subscribeToAudio only,
\* "none" for neither), enabled is the state that API was last set to, hasEl
\* whether streamManager.audioElement exists and elMuted its muted flag
\* speaker: this.speaker of the application
\* liveIds: the ids added and not removed since
\* lastCall: the last call: the method, its id, whether it was the second
\* toggleStreamMute of that id in a row, and the info before the first
VARIABLES streams, speaker, liveIds, lastCall

audioVars == <<streams, speaker, liveIds, lastCall>>

StreamIds == 1..MaxStreams

\* what a stream offers: a LiveKit publication with its audio element, the
\* old subscribeToAudio API with an audio element, or neither
StreamKinds ==
    {[api |-> "publication", hasEl |-> TRUE],
     [api |-> "legacy", hasEl |-> TRUE],
     [api |-> "none", hasEl |-> FALSE]}

\* the entry addStream() stores: isMuted: false; a new publication is enabled
\* and a new audio element is not muted
NewInfo(kind) ==
    [api |-> kind.api, hasEl |-> kind.hasEl, isMuted |-> FALSE,
     enabled |-> TRUE, elMuted |-> FALSE]

NoInfo == NewInfo([api |-> "none", hasEl |-> FALSE])

NoCall == [op |-> "none", id |-> 0, twice |-> FALSE, orig |-> NoInfo]

Call(op, id) == [op |-> op, id |-> id, twice |-> FALSE, orig |-> NoInfo]

\* new AudioStreamManager('streams-container')
AudioConstructed ==
    /\ streams = <<>>
    /\ liveIds = {}
    /\ lastCall = NoCall

AudioIdle == AudioConstructed /\ speaker = TRUE

\* this.speaker after loadConfiguration(): getSpeakerState()
InitAudio == AudioConstructed /\ speaker \in BOOLEAN

\* getStreamCount(): this.streams.size
getStreamCount(m) == Cardinality(DOMAIN m)

\* mutant: addStream() stores the entry whether or not the id is there
AlreadyHas_Never(m, id) == FALSE

\* this.streams.has(streamId)
AlreadyHas(m, id) == id \in DOMAIN m

\* addStream(): the Map after it
addStream(m, id, kind) ==
    IF AlreadyHas(m, id)
    THEN m
    ELSE [i \in DOMAIN m \cup {id} |-> IF i = id THEN NewInfo(kind) ELSE m[i]]

\* removeStream(): the Map after it
removeStream(m, id) ==
    IF id \in DOMAIN m THEN [i \in DOMAIN m \ {id} |-> m[i]] ELSE m

\* removeStream() for each of the ids, as clearAllStreams() calls it
RECURSIVE RemoveEach(_, _)
RemoveEach(m, ids) ==
    IF ids = {} THEN m
    ELSE LET id == CHOOSE i \in ids : TRUE
         IN RemoveEach(removeStream(m, id), ids \ {id})

\* clearAllStreams(): removeStream() for Array.from(this.streams.keys())
clearAllStreams(m) == RemoveEach(m, DOMAIN m)

\* the body of toggleStreamMute() on one entry
ToggleInfo(info) ==
    LET newMutedState == ~info.isMuted
    IN IF info.api \in {"publication", "legacy"}
       THEN [info EXCEPT !.enabled = ~newMutedState,
                         !.isMuted = newMutedState,
                         !.elMuted = IF info.hasEl THEN newMutedState ELSE @]
       ELSE info

\* toggleStreamMute(): the Map after it
toggleStreamMute(m, id) ==
    IF id \in DOMAIN m THEN [m EXCEPT ![id] = ToggleInfo(m[id])] ELSE m

\* the callback of muteAllStreams(mute) on one entry
MuteInfo(info, mute) ==
    [info EXCEPT !.enabled = IF info.api \in {"publication", "legacy"}
                             THEN ~mute ELSE @,
                 !.elMuted = IF info.hasEl THEN mute ELSE @,
                 !.isMuted = mute]

\* muteAllStreams(mute): the Map after it
muteAllStreams(m, mute) == [i \in DOMAIN m |-> MuteInfo(m[i], mute)]

\* what handleTrackSubscribed() does after addStream(): setEnabled(
\* this.speaker) on a publication that has it, audioElement.muted =
\* !this.speaker
ApplySpeaker(info, sp) ==
    [info EXCEPT !.enabled = IF info.api = "publication" THEN sp ELSE @,
                 !.elMuted = IF info.hasEl THEN ~sp ELSE @]

\* audioStreamManager.addStream(streamManager, name), called on its own
AddStream(id, kind) ==
    /\ streams' = addStream(streams, id, kind)
    /\ liveIds' = liveIds \cup {id}
    /\ lastCall' = Call("addStream", id)
    /\ UNCHANGED speaker

\* handleTrackSubscribed() for the audio track of a new stream id: the track
\* has an audio element, and a publication with or without setEnabled
TrackSubscribed(id, kind) ==
    /\ id \notin DOMAIN streams
    /\ kind.hasEl
    /\ streams' = [addStream(streams, id, kind) EXCEPT
                      ![id] = ApplySpeaker(@, speaker)]
    /\ liveIds' = liveIds \cup {id}
    /\ lastCall' = Call("handleTrackSubscribed", id)
    /\ UNCHANGED speaker

\* removeStream(streamId), as handleTrackUnsubscribed() calls it
RemoveStream(id) ==
    /\ streams' = removeStream(streams, id)
    /\ liveIds' = liveIds \ {id}
    /\ lastCall' = Call("removeStream", id)
    /\ UNCHANGED speaker

\* clearAllStreams(), as handleDisconnection() and leaveRoom() call it
ClearAllStreams ==
    /\ streams' = clearAllStreams(streams)
    /\ liveIds' = {}
    /\ lastCall' = Call("clearAllStreams", 0)
    /\ UNCHANGED speaker

\* toggleStreamMute(streamId), on a click on the stream's button
ToggleStreamMute(id) ==
    /\ streams' = toggleStreamMute(streams, id)
    /\ lastCall' =
          IF lastCall.op = "toggleStreamMute" /\ lastCall.id = id
                /\ ~lastCall.twice /\ id \in DOMAIN streams
          THEN [op |-> "toggleStreamMute", id |-> id, twice |-> TRUE,
                orig |-> lastCall.orig]
          ELSE [op |-> "toggleStreamMute", id |-> id, twice |-> FALSE,
                orig |-> IF id \in DOMAIN streams THEN streams[id] ELSE NoInfo]
    /\ UNCHANGED <<speaker, liveIds>>

\* muteAllStreams(mute), called on its own
MuteAllStreams(mute) ==
    /\ streams' = muteAllStreams(streams, mute)
    /\ lastCall' = Call("muteAllStreams", 0)
    /\ UNCHANGED <<speaker, liveIds>>

\* muteUnmuteSpeaker(): this.speaker is flipped, every audio publication of
\* the room is set to it and muteAllStreams(!this.speaker) runs
muteUnmuteSpeaker ==
    /\ speaker' = ~speaker
    /\ streams' = muteAllStreams(streams, ~speaker')
    /\ lastCall' = Call("muteUnmuteSpeaker", 0)
    /\ UNCHANGED liveIds

\* ==== the page's services ================================================

serviceVars == <<retryVars, configVars, audioVars>>

ServicesIdle == RetryIdle /\ ConfigIdle /\ AudioIdle

NotLauncher == <<program, headlessVars, hPolled, appVars, backoffVars, gatewayVars, bridgeVars,
                 improvedVars,
    serviceVars>>
NotHeadless == <<program, launcherVars, polled, navSeen, appVars, backoffVars, gatewayVars, bridgeVars,
                 improvedVars,
    serviceVars>>
NotApp == <<program, launcherVars, polled, navSeen, headlessVars, hPolled, gatewayVars,
            bridgeVars, improvedVars,
    serviceVars>>
NotGateway == <<program, launcherVars, polled, navSeen, headlessVars, hPolled, appVars,
                backoffVars, bridgeVars, improvedVars,
    serviceVars>>
NotBridge == <<program, launcherVars, polled, navSeen, headlessVars, hPolled, appVars,
               backoffVars, gatewayVars, improvedVars,
    serviceVars>>
NotImproved == <<program, launcherVars, polled, navSeen, headlessVars, hPolled, appVars,
                 backoffVars, gatewayVars, bridgeVars,
    serviceVars>>

vars == <<program, launcherVars, polled, navSeen, headlessVars, hPolled, appVars,
          backoffVars, gatewayVars, bridgeVars, improvedVars,
    serviceVars>>

\* each specification runs one program; the others stay as loaded
\* the other programs as they are when only this one runs
LauncherIdle ==
    /\ LauncherConstructed(TRUE, 1) /\ retryDelay = DefaultRetryDelay
    /\ polled = NoPoll /\ navSeen = NoNav
HeadlessIdle == HeadlessLoaded(TRUE, 1) /\ hPolled = HNoPoll
AppIdle == AppConstructed(1) /\ reconnectDelay = 0 /\ armed = <<>>
GatewayIdle == GatewayListening /\ NoBridge
ImprovedIdle ==
    /\ iEnv = [ROBOT_ID |-> <<>>, PARTICIPANT_NAME_PREFIX |-> <<>>,
               PARTICIPANT_NAME_SUFFIX_LENGTH |-> <<>>,
               PARTICIPANT_NAME_GENERATION |-> <<>>]
    /\ ImprovedLoaded

Init ==
    /\ program = "launcher.js"
    /\ InitLauncher /\ HeadlessIdle /\ AppIdle /\ GatewayIdle /\ ImprovedIdle
    /\ ServicesIdle

Next ==
    \/ Main /\ polled' = NoPoll /\ navSeen' = NoNav
          /\ UNCHANGED NotLauncher
    \/ \E r \in DOMAIN tasks : HttpServerReady(r) /\ polled' = NoPoll /\ navSeen' = NoNav
          /\ UNCHANGED NotLauncher
    \/ \E r \in DOMAIN tasks : WebsiteAccessible(r) /\ polled' = NoPoll /\ navSeen' = NoNav
          /\ UNCHANGED NotLauncher
    \/ \E r \in DOMAIN tasks : WebsiteNotAccessible(r) /\ polled' = NoPoll /\ navSeen' = NoNav
          /\ UNCHANGED NotLauncher
    \/ \E r \in DOMAIN tasks : LaunchBrowserOk(r) /\ polled' = NoPoll /\ navSeen' = NoNav
          /\ UNCHANGED NotLauncher
    \/ \E r \in DOMAIN tasks : LaunchBrowserFail(r) /\ polled' = NoPoll /\ navSeen' = NoNav
          /\ UNCHANGED NotLauncher
    \/ \E r \in DOMAIN tasks : NavigateOk(r) /\ polled' = NoPoll /\ UNCHANGED NotLauncher
    \/ \E r \in DOMAIN tasks : NavigateRetry(r) /\ polled' = NoPoll /\ navSeen' = NoNav
          /\ UNCHANGED NotLauncher
    \/ \E r \in DOMAIN tasks : NavigateFail(r) /\ polled' = NoPoll /\ UNCHANGED NotLauncher
    \/ \E r \in DOMAIN tasks : CloseDone(r) /\ polled' = NoPoll /\ navSeen' = NoNav
          /\ UNCHANGED NotLauncher
    \/ \E r \in DOMAIN tasks : Cleaned(r) /\ polled' = NoPoll /\ navSeen' = NoNav
          /\ UNCHANGED NotLauncher
    \/ RestartTimer /\ polled' = NoPoll /\ navSeen' = NoNav
          /\ UNCHANGED NotLauncher
    \/ HealthCheckPass /\ navSeen' = NoNav /\ UNCHANGED NotLauncher
    \/ HealthCheckFail /\ navSeen' = NoNav /\ UNCHANGED NotLauncher
    \/ PageCrash /\ polled' = NoPoll /\ navSeen' = NoNav
          /\ UNCHANGED NotLauncher
    \/ UnhandledRejection /\ polled' = NoPoll /\ navSeen' = NoNav
          /\ UNCHANGED NotLauncher
    \/ Shutdown /\ polled' = NoPoll /\ navSeen' = NoNav
          /\ UNCHANGED NotLauncher

\* launcher.js
Spec == Init /\ [][Next]_vars

InitDelay ==
    /\ program = "launcher.js"
    /\ InitLauncherDelay /\ HeadlessIdle /\ AppIdle /\ GatewayIdle
    /\ ImprovedIdle
    /\ ServicesIdle

\* launcher.js under every RETRY_DELAY
SpecDelay == InitDelay /\ [][Next]_vars

NextH ==
    \/ HMain /\ hPolled' = HNoPoll /\ UNCHANGED NotHeadless
    \/ \E r \in DOMAIN hTasks : HLaunchOk(r) /\ hPolled' = HNoPoll /\ UNCHANGED NotHeadless
    \/ \E r \in DOMAIN hTasks : HLaunchFail(r) /\ hPolled' = HNoPoll /\ UNCHANGED NotHeadless
    \/ \E r \in DOMAIN hTasks : HNavigateOk(r) /\ hPolled' = HNoPoll /\ UNCHANGED NotHeadless
    \/ \E r \in DOMAIN hTasks : HNavigateFail(r) /\ hPolled' = HNoPoll /\ UNCHANGED NotHeadless
    \/ \E r \in DOMAIN hTasks : HConnectOk(r) /\ hPolled' = HNoPoll /\ UNCHANGED NotHeadless
    \/ \E r \in DOMAIN hTasks : HConnectFail(r) /\ hPolled' = HNoPoll /\ UNCHANGED NotHeadless
    \/ \E r \in DOMAIN hTasks : HCloseOk(r) /\ hPolled' = HNoPoll /\ UNCHANGED NotHeadless
    \/ \E r \in DOMAIN hTasks : HCloseFail(r) /\ hPolled' = HNoPoll /\ UNCHANGED NotHeadless
    \/ \E r \in DOMAIN hTasks : HDelayDone(r) /\ hPolled' = HNoPoll /\ UNCHANGED NotHeadless
    \/ \E r \in DOMAIN hTasks : HSignalExit(r) /\ hPolled' = HNoPoll /\ UNCHANGED NotHeadless
    \/ HReconnectTimer /\ hPolled' = HNoPoll /\ UNCHANGED NotHeadless
    \/ HMonitorReconnect /\ UNCHANGED NotHeadless
    \/ HMonitorHealthy /\ UNCHANGED NotHeadless
    \/ HSignal /\ hPolled' = HNoPoll /\ UNCHANGED NotHeadless

\* headless-launcher.js
InitH ==
    /\ program = "headless-launcher.js"
    /\ LauncherIdle /\ InitHeadless /\ AppIdle /\ GatewayIdle /\ ImprovedIdle
    /\ ServicesIdle

SpecH == InitH /\ [][NextH]_vars
NextA ==
    \/ AppInit /\ UNCHANGED backoffVars /\ UNCHANGED NotApp
    \/ \E r \in DOMAIN aTasks : TokenOk(r) /\ UNCHANGED backoffVars /\ UNCHANGED NotApp
    \/ \E r \in DOMAIN aTasks : TokenFail(r) /\ UNCHANGED backoffVars /\ UNCHANGED NotApp
    \/ \E r \in DOMAIN aTasks : ConnectOk(r) /\ UNCHANGED backoffVars /\ UNCHANGED NotApp
    \/ \E r \in DOMAIN aTasks : LeaveDone(r) /\ UNCHANGED backoffVars /\ UNCHANGED NotApp
    \/ RoomDisconnected /\ UNCHANGED NotApp
    \/ ReconnectTimerFires /\ UNCHANGED backoffVars /\ UNCHANGED NotApp
    \/ RetryClick /\ UNCHANGED backoffVars /\ UNCHANGED NotApp

\* either supervisor: launcher.js or headless-launcher.js
InitSup == Init \/ InitH

NextSup ==
    \/ program = "launcher.js" /\ Next
    \/ program = "headless-launcher.js" /\ NextH

SpecSup == InitSup /\ [][NextSup]_vars

\* the page application
InitA ==
    /\ program = "index.html"
    /\ LauncherIdle /\ HeadlessIdle /\ InitApp /\ GatewayIdle /\ ImprovedIdle
    /\ ServicesIdle

SpecA == InitA /\ [][NextA]_vars

\* the gateway's HTTP side: one request from its arrival to its response
InitG ==
    /\ program = FirstVariant
    /\ LauncherIdle /\ HeadlessIdle /\ AppIdle /\ GatewayIdle /\ ImprovedIdle
    /\ ServicesIdle

NextG ==
    \/ /\ gPhase = "idle"
       /\ \E m \in Methods, p \in Pathnames, q \in Searches,
             onDisk \in {"file", "directory", "missing"} :
             Request(m, p, q, onDisk) /\ UNCHANGED NotGateway
    \/ \E st \in {200, 401}, u \in UpstreamHeaders :
          UpstreamResponse(st, u) /\ UNCHANGED NotGateway
    \/ UpstreamData /\ UNCHANGED NotGateway
    \/ UpstreamEnd /\ UNCHANGED NotGateway
    \/ UpstreamError /\ UNCHANGED NotGateway
    \/ UpstreamStalls /\ UNCHANGED NotGateway
    \/ ProxyTimeout /\ UNCHANGED NotGateway
    \/ FileRead /\ UNCHANGED NotGateway
    \/ FileReadError /\ UNCHANGED NotGateway

SpecG == InitG /\ [][NextG]_vars

\* the same with the callbacks of a pending request run eventually
SpecGLive == SpecG /\ WF_vars(NextG)

\* either variant of the gateway
InitG2 ==
    /\ program \in {FirstVariant, SecondVariant}
    /\ LauncherIdle /\ HeadlessIdle /\ AppIdle /\ GatewayIdle /\ ImprovedIdle
    /\ ServicesIdle

SpecG2 == InitG2 /\ [][NextG]_vars

\* the improved headless launcher
InitI ==
    /\ program = "headless-launcher.js (improved)"
    /\ LauncherIdle /\ HeadlessIdle /\ AppIdle /\ GatewayIdle /\ InitImproved
    /\ ServicesIdle

NextI ==
    \/ GenerateName /\ UNCHANGED NotImproved
    \/ ImprovedLaunchOk /\ UNCHANGED NotImproved
    \/ ImprovedLaunchFail /\ UNCHANGED NotImproved
    \/ ImprovedRetryLaunch /\ UNCHANGED NotImproved

SpecI == InitI /\ [][NextI]_vars

\* everything outside the page's services
NotServices == <<program, launcherVars, polled, navSeen, headlessVars, hPolled,
                 appVars, backoffVars, gatewayVars, bridgeVars, improvedVars>>

OthersIdle ==
    /\ LauncherIdle /\ HeadlessIdle /\ AppIdle /\ GatewayIdle /\ ImprovedIdle

\* one call of OpenViduV3Service.retryOperation()
InitR ==
    /\ program = "openvidu-service.js"
    /\ OthersIdle
    /\ InitRetry /\ ConfigIdle /\ AudioIdle

NextR ==
    \/ RetryOperationCall /\ UNCHANGED <<NotServices, configVars, audioVars>>
    \/ \E v \in OpValues :
          OperationResolves(v) /\ UNCHANGED <<NotServices, configVars, audioVars>>
    \/ \E e \in OpErrors :
          OperationRejects(e) /\ UNCHANGED <<NotServices, configVars, audioVars>>
    \/ RetryWaitDone /\ UNCHANGED <<NotServices, configVars, audioVars>>

SpecR == InitR /\ [][NextR]_vars

\* the ConfigService of one browser profile, across page loads
InitC ==
    /\ program = "config-service.js"
    /\ OthersIdle
    /\ RetryIdle /\ InitConfig /\ AudioIdle

NextC ==
    \/ LoadConfigurationCall /\ UNCHANGED <<NotServices, retryVars, audioVars>>
    \/ RemoteConfigLoaded /\ UNCHANGED <<NotServices, retryVars, audioVars>>
    \/ RemoteConfigFails /\ UNCHANGED <<NotServices, retryVars, audioVars>>
    \/ \E k \in PrefKeys : \E v \in PrefValues(k) :
          updateConfig(k, v) /\ UNCHANGED <<NotServices, retryVars, audioVars>>
    \/ \E d \in PrefValues("audioDevice") :
          setAudioDevice(d) /\ UNCHANGED <<NotServices, retryVars, audioVars>>
    \/ \E d \in PrefValues("audioOutputDevice") :
          setAudioOutputDevice(d) /\ UNCHANGED <<NotServices, retryVars, audioVars>>
    \/ PageReload /\ UNCHANGED <<NotServices, retryVars, audioVars>>

SpecC == InitC /\ [][NextC]_vars

\* the AudioStreamManager of the page and the speaker switch
InitM ==
    /\ program = "audio-stream-manager.js"
    /\ OthersIdle
    /\ RetryIdle /\ ConfigIdle /\ InitAudio

NextM ==
    \/ \E id \in StreamIds, kind \in StreamKinds :
          AddStream(id, kind) /\ UNCHANGED <<NotServices, retryVars, configVars>>
    \/ \E id \in StreamIds, kind \in StreamKinds :
          TrackSubscribed(id, kind)
             /\ UNCHANGED <<NotServices, retryVars, configVars>>
    \/ \E id \in StreamIds :
          RemoveStream(id) /\ UNCHANGED <<NotServices, retryVars, configVars>>
    \/ ClearAllStreams /\ UNCHANGED <<NotServices, retryVars, configVars>>
    \/ \E id \in StreamIds :
          ToggleStreamMute(id)
             /\ UNCHANGED <<NotServices, retryVars, configVars>>
    \/ \E mute \in BOOLEAN :
          MuteAllStreams(mute)
             /\ UNCHANGED <<NotServices, retryVars, configVars>>
    \/ muteUnmuteSpeaker /\ UNCHANGED <<NotServices, retryVars, configVars>>

SpecM == InitM /\ [][NextM]_vars

\* the gateway's WebSocket side: one upgrade request and its bridge
NextW ==
    \/ /\ wReq = <<>>
       /\ \E p \in UpgradePaths, q \in Searches :
             Upgrade(p, q) /\ UNCHANGED NotBridge
    \/ \E m \in Messages : ClientMessage(m) /\ UNCHANGED NotBridge
    \/ \E m \in Messages : TargetMessage(m) /\ UNCHANGED NotBridge
    \/ TargetOpen /\ UNCHANGED NotBridge
    \/ ClientClose /\ UNCHANGED NotBridge
    \/ ClientError /\ UNCHANGED NotBridge
    \/ TargetClose /\ UNCHANGED NotBridge
    \/ TargetError /\ UNCHANGED NotBridge

SpecW == InitG /\ [][NextW]_vars

(***************************************************************************)
(* Properties of launcher.js                                               *)
(***************************************************************************)

InFlight(P(_)) == BagCardinality([r \in {x \in DOMAIN tasks : P(x)} |-> tasks[r]])

IsStarting(r) == r.kind = "start" /\ r.pc \in {"httpWait", "access", "launching", "nav"}

\* a failure handler that is on its way to the restart timer or to exit
IsRecovering(r) == r.pc \in {"closing", "cleaned"} /\ r.kind \in {"start", "restart"}

\* restart timers armed so far: the pending ones and those that called start()
TimersArmed == restartTimers + (IF spawned > 0 THEN spawned - 1 ELSE 0)

\* C1: at most one browser launched by launchBrowser() is open at any time
C1_AtMostOneBrowser == Cardinality(openBrowsers) <= 1

\* C3: once more than maxRetries sessions have ended in restart(), no further
\* start() is scheduled or begun and no further browser is launched
C3_Exhausted ==
    [][restartCount > maxRetries =>
          /\ restartTimers' <= restartTimers
          /\ spawned' = spawned
          /\ launched' = launched]_vars

\* C6: start() called while an earlier start() is in progress, or while its
\* session runs, is a no-op: it spawns no HTTP server
C6_StartIdempotent ==
    [][(InFlight(IsStarting) > 0 \/ (isRunning /\ ~PageClosed)) =>
          spawned' = spawned]_vars

\* C7: once shutdown() was invoked, no start() begins and no browser is launched
C7_ShutdownSuppresses ==
    [][shutdownInvoked => spawned' = spawned /\ launched' = launched]_vars

\* C8: when cleanup() has finished no health-check interval of an earlier
\* start() is active, and there is never more than one
C8_NoStaleInterval == (justCleaned => intervals = 0) /\ intervals <= 1

\* C9: cleanup() never throws, and a cleanup() called straight after a
\* finished cleanup() closes no browser and kills no HTTP server
C9_CleanupIdempotent ==
    [][/\ ~cleanupThrew'
       /\ "again" \in called' => called' = {"again", "cleanup"}]_vars

\* C9 witness: the second cleanup() has run after a browser and a server were
\* there for the first one
C9_Witness ==
    /\ "again" \in called
    /\ launched > 0
    /\ openBrowsers = {}

Drivers ==
    BagCardinality([r \in {x \in DOMAIN hTasks : x.pc # "sigclosing"} |-> hTasks[r]])

\* C2: no two reconnect()/startApp() executions are active together and at
\* most one browser is open
C2_SingleFlight == Drivers <= 1 /\ Cardinality(hOpen) <= 1

\* C4 as claimed: when every session fails to navigate, exactly
\* maxReconnectAttempts browsers are launched before exit code 1
C4_ExactlyNLaunches ==
    (keepAlive /\ onlyNavFail /\ hExit # Alive) =>
        hExit = 1 /\ hLaunched = maxReconnectAttempts

\* C4 amended: when every session fails to navigate, the first launch is
\* followed by maxReconnectAttempts relaunches, each after a reconnectDelay
\* wait, and the process then exits with code 1
C4_NPlusOneLaunches ==
    (keepAlive /\ onlyNavFail) =>
        /\ gapOk
        /\ hLaunched <= maxReconnectAttempts + 1
        /\ hExit # Alive => hExit = 1 /\ hLaunched = maxReconnectAttempts + 1

\* C4 witness: with maxReconnectAttempts = 2 every session failed to
\* navigate and the run has come to its exit
C4_Witness ==
    /\ keepAlive
    /\ onlyNavFail
    /\ maxReconnectAttempts = 2
    /\ hLaunched = 3
    /\ hExit = 1

(***************************************************************************)
(* Properties of the page application                                      *)
(***************************************************************************)

\* C5: every joinRoom() after the first asks for its token under a name that
\* was generated after the previous joinRoom()'s: never the same name again
C5_FreshIdentity == joins >= 2 => tokenName # prevTokenName

(***************************************************************************)
(* Properties of the health polls and of the exit codes                    *)
(***************************************************************************)

\* C11 (launcher.js, autoRestart on): one health poll that finds the page
\* closed, the page unresponsive or the application disconnected calls
\* restart() on that same poll
C11_SinglePollRestarts ==
    (autoRestart /\ polled.seen \in {"closed", "unresponsive", "disconnected"})
        => polled.restarted

ShutdownsCleaned ==
    {r \in DOMAIN tasks : r.kind = "shutdown" /\ r.pc = "cleaned"}

JoinsInFlight == {r \in DOMAIN aTasks : r.fn = "joinRoom"}

\* C13 (page application): after a token request has failed, with attempts
\* left and before any click on Retry, a further joinRoom() is running or
\* scheduled
C13_TokenFailureRetried ==
    (/\ tokenFailures > 0
     /\ retryClicks = 0
     /\ aTasks = EmptyBag
     /\ room = Null
     /\ connectionAttempts < maxConnectionAttempts)
        => reconnectTimeout

(***************************************************************************)
(* Properties of the gateway's HTTP side                                   *)
(***************************************************************************)

\* the request handler has run for a request
Handled == gPhase # "idle"

\* C15 (gateway): a non-OPTIONS request with path p and query q is forwarded
\* to '/application-server' + p + q when p starts with /api, and to p + q
\* unchanged when p starts with /application-server/api
C15_ApiPathRewrite ==
    (Handled /\ gReq.method # "OPTIONS") =>
        /\ StartsWith(gReq.pathname, <<"/api">>) =>
              /\ gForwarded
              /\ gTarget = <<"/application-server">> \o gReq.pathname
                               \o SearchOrEmpty(gReq.search)
        /\ StartsWith(gReq.pathname, <<"/application-server", "/api">>) =>
              /\ gForwarded
              /\ gTarget = gReq.pathname \o SearchOrEmpty(gReq.search)

\* a POST to /api/x?a=1 was forwarded
C15_Witness ==
    /\ gReq = [method |-> "POST", pathname |-> <<"/api", "/x">>, search |-> "?a=1"]
    /\ gForwarded
    /\ gTarget = <<"/application-server", "/api", "/x", "?a=1">>

\* a request to exactly /local-health is answered by the gateway itself with
\* status 200 and the JSON of its configuration
LocalHealthAnswered ==
    /\ ~gForwarded
    /\ gPhase = "sent"
    /\ gRes.status = 200
    /\ gRes.body = "configuration"
    /\ gRes.headers.ctype = "application/json"

\* C16 as stated (gateway): every request to exactly /local-health, of any
\* method, is answered locally with status 200 and the JSON of the gateway's
\* configuration
C16_LocalHealthAnyMethod ==
    (Handled /\ gReq.pathname = <<"/local-health">>) => LocalHealthAnswered

\* C16 (gateway): every request other than OPTIONS to exactly /local-health
\* is answered locally with status 200 and the JSON of the gateway's
\* configuration and is never forwarded; an OPTIONS request to it is answered
\* locally too, as a preflight with an empty body
C16_LocalHealthNotForwarded ==
    (Handled /\ gReq.pathname = <<"/local-health">>) =>
        /\ ~gForwarded
        /\ gReq.method # "OPTIONS" => LocalHealthAnswered
        /\ gReq.method = "OPTIONS" => gRes.status = 200 /\ gRes.body = ""

\* a GET of /local-health was answered
C16_Witness ==
    /\ gReq.method = "GET"
    /\ gReq.pathname = <<"/local-health">>
    /\ gRes.body = "configuration"

\* C17 (gateway): every response sent carries Access-Control-Allow-Origin: *
\* and the permissive Allow-Methods and Allow-Headers
C17_EveryResponseHasCors ==
    gPhase = "sent" =>
        /\ gRes.headers.acao = "*"
        /\ gRes.headers.acam = AllowMethods
        /\ gRes.headers.acah = AllowHeaders

\* C18 (gateway): every OPTIONS request, whatever its path, is answered
\* locally with status 200 and an empty body and is never forwarded
C18_PreflightLocal ==
    (Handled /\ gReq.method = "OPTIONS") =>
        /\ gPhase = "sent"
        /\ ~gForwarded
        /\ gFile = ""
        /\ gRes.status = 200
        /\ gRes.body = ""

\* an OPTIONS request to /application-server/api/x was answered
C18_Witness ==
    /\ gReq.method = "OPTIONS"
    /\ gReq.pathname = <<"/application-server", "/api", "/x">>
    /\ gPhase = "sent"

(***************************************************************************)
(* Properties of the gateway's bridge                                      *)
(***************************************************************************)

\* C19 (gateway): while neither side of the bridge has closed, every message
\* the client sent after its upgrade has been given to the upstream socket,
\* in order, and every message of the upstream to the client
C19_NoMessageDropped ==
    (wClient = "OPEN" /\ wTarget \in {"CONNECTING", "OPEN"}) =>
        /\ wGotUp = wSentUp
        /\ wGotDown = wSentDown

\* C20 (gateway): once one side of the bridge is closed the other is not left
\* open
C20_CloseClosesOther ==
    /\ wClient = "CLOSED" => wTarget # "OPEN"
    /\ wTarget = "CLOSED" => wClient # "OPEN"

(***************************************************************************)
(* Properties of the gateway's upgrade requests                            *)
(***************************************************************************)
\* C21: an upgrade request whose path does not start with /rtc has its
\* socket destroyed and opens no socket to the upstream; one under /rtc
\* opens exactly one socket to the upstream, with the path and the query of
\* the request, and its own socket is not destroyed
C21_UpgradeOnlyUnderRtc ==
    wReq # <<>> =>
        IF wReq[1] = "/rtc"
        THEN wUpstreams = 1 /\ wUrl = wReq /\ ~wDestroyed /\ wTarget # "none"
        ELSE wDestroyed /\ wUpstreams = 0 /\ wUrl = <<>> /\ wTarget = "none"
                        /\ wClient = "none"

\* an upgrade under /rtc with a query was bridged, and its upstream socket
\* opened
C21_Witness ==
    /\ wReq = <<"/rtc", "/x", "?a=1">>
    /\ wUrl = wReq
    /\ wTarget = "OPEN"

(***************************************************************************)
(* Properties of the gateway's failures and of its static files            *)
(***************************************************************************)

\* C22 (either variant): when the upstream request of a forwarded call
\* fails, the response has status 500 and a JSON body whose member "target"
\* is TARGET_SERVER followed by the rewritten path
C22_ErrorBodyNamesTarget ==
    (gPhase = "sent" /\ gRes.body = "proxy-error") =>
        /\ gRes.status = 500
        /\ gErrTarget = <<TARGET_SERVER>> \o gTarget

\* C23 (first variant): a forwarded request whose upstream never answers is
\* ended: the client eventually has its response
C23_TimeoutEndsRequest == gStalled ~> (gPhase = "sent")

\* C24 (first variant): no failure of a forwarded request terminates the
\* gateway's process
C24_GatewayStaysAlive == gAlive

\* the request is neither a preflight nor under a reserved prefix
IsStaticRequest ==
    /\ Handled
    /\ gReq.method # "OPTIONS"
    /\ \A pre \in {<<"/api">>, <<"/application-server", "/api">>, <<"/health">>,
                   <<"/application-server", "/health">>, <<"/local-health">>} :
          ~StartsWith(gReq.pathname, pre)

\* C25 (either variant): a non-OPTIONS request under no reserved prefix is
\* never forwarded and is answered from the local files: index.html when
\* the path is '/', names a directory or names no file, else the file the
\* path names
C25_StaticFallback ==
    IsStaticRequest =>
        /\ ~gForwarded
        /\ gTarget = <<>>
        /\ gPhase \in {"reading", "sent"}
        /\ IF gReq.pathname = Root \/ gOnDisk \in {"directory", "missing"}
           THEN gFile = "index.html"
           ELSE gFile = "pathname"

\* a GET of /x/x, which names no file, was answered with index.html
C25_Witness ==
    /\ gReq.method = "GET"
    /\ gReq.pathname = <<"/x", "x">>
    /\ gOnDisk = "missing"
    /\ gFile = "index.html"
    /\ gRes.body = "file"

(***************************************************************************)
(* Properties of the improved headless launcher                            *)
(***************************************************************************)

\* the characters [a-z0-9] and [A-Za-z0-9_-]
SuffixClass == {Chars[i] : i \in 1..36}
PrefixClass ==
    SuffixClass \cup {"_", "-"} \cup
    {"A", "B", "C", "D", "E", "F", "G", "H", "I", "J", "K", "L", "M",
     "N", "O", "P", "Q", "R", "S", "T", "U", "V", "W", "X", "Y", "Z"}

\* name matches ^[A-Za-z0-9_-]+_[a-z0-9]+$
MatchesNamePattern(name) ==
    \E i \in 2..(Len(name) - 1) :
        /\ name[i] = "_"
        /\ \A j \in 1..(i - 1) : name[j] \in PrefixClass
        /\ \A j \in (i + 1)..Len(name) : name[j] \in SuffixClass

\* the suffix length the environment configures: the number it sets, the
\* default 8 if it sets none
ConfiguredLength ==
    IF ParseInt(iEnv.PARTICIPANT_NAME_SUFFIX_LENGTH).nan
    THEN DefaultSuffixLength
    ELSE ParseInt(iEnv.PARTICIPANT_NAME_SUFFIX_LENGTH).n

\* the name's suffix: what follows the prefix and the '_'
NameSuffix ==
    SubSeq(iParticipantName, Len(NamePrefix(iEnv)) + 2, Len(iParticipantName))

\* C26 (improved headless launcher): the generated name is the prefix, '_'
\* and a suffix; in random mode the suffix has the configured length, for
\* every configured length, and characters of [a-z0-9] only; in every other
\* mode it is the base-36 rendering of the timestamp; the name matches
\* ^[A-Za-z0-9_-]+_[a-z0-9]+$
C26_NameForm ==
    iPc # "loaded" =>
        /\ iParticipantName = NameOf(NamePrefix(iEnv), NameSuffix)
        /\ IF iEnv.PARTICIPANT_NAME_GENERATION = <<"random">>
           THEN /\ Len(NameSuffix) = ConfiguredLength
                /\ \A i \in 1..Len(NameSuffix) : NameSuffix[i] \in SuffixClass
           ELSE NameSuffix = ToString36(iNow)
        /\ MatchesNamePattern(iParticipantName)

\* C28 (improved headless launcher): a failed browser launch is not retried
\* by the launch step itself: puppeteer.launch() is called once and its
\* failure ends the step
C28_LaunchNotRetriedInternally ==
    /\ iLaunches <= 1
    /\ iRetryCount >= 1 => iPc = "exited"

(***************************************************************************)
(* Properties of the page application's reconnect delays                   *)
(***************************************************************************)

\* C27 (page application): the delays of consecutive automatic reconnect
\* attempts grow: the timer handleDisconnection() arms for attempt k of a
\* series has a strictly larger delay than the one it armed for attempt k-1
C27_ExponentialBackoff ==
    \A k \in 2..Len(armed) :
        armed[k].attempt = armed[k - 1].attempt + 1 =>
            armed[k].delay > armed[k - 1].delay

(***************************************************************************)
(* Properties of navigateWithRetry()                                       *)
(***************************************************************************)

C31_WaitsConfiguredDelay == restartTimers > 0 => RestartWait = retryDelay

\* the call has ended, by a return or by a throw
RetryEnded == rPc \in {"returned", "threw"}

\* the invocations that failed, by position
FailedAt == {i \in 1..Len(rOutcomes) : ~rOutcomes[i].ok}

\* b is 1.5 times a
OneAndAHalfTimes(a, b) == b.n * a.d * 2 = a.n * 3 * b.d

\* C32: retryOperation invokes operation at most maxRetries times; it returns
\* the result of the first successful invocation, which is the last one made;
\* when all invocations fail it throws the error of the last one; it waits
\* once between consecutive attempts and never after the last, the first wait
\* being delay and every later one 1.5 times the one before
C32_RetryOperation ==
    /\ rInvoked <= rMaxRetries
    /\ Len(rOutcomes) = IF rPc = "awaiting" THEN rInvoked - 1 ELSE rInvoked
    /\ \A i \in 1..Len(rOutcomes) : rOutcomes[i].ok => i = Len(rOutcomes)
    /\ rPc = "returned" =>
          /\ rOutcomes[rInvoked].ok
          /\ rResult = rOutcomes[rInvoked].val
    /\ (rPc = "threw" /\ rInvoked > 0) =>
          /\ rInvoked = rMaxRetries
          /\ FailedAt = 1..rInvoked
          /\ rLastError = rOutcomes[rInvoked].val
    /\ Len(rWaits) = IF rPc = "waiting" THEN rInvoked
                     ELSE IF rInvoked = 0 THEN 0 ELSE rInvoked - 1
    /\ rPc = "waiting" => rInvoked < rMaxRetries
    /\ \A i \in 1..Len(rWaits) :
          IF i = 1 THEN rWaits[1] \in OpDelays
          ELSE OneAndAHalfTimes(rWaits[i - 1], rWaits[i])

\* C32 happens: three invocations failed, with waits of 1000 ms and 1500 ms
\* between them, and the error of the third was thrown
C32_Witness ==
    /\ rPc = "threw"
    /\ rInvoked = 3
    /\ rWaits = <<Ms(1000), [n |-> 3000, d |-> 2]>>
    /\ rOutcomes[1].val # rOutcomes[3].val
    /\ rLastError = rOutcomes[3].val

\* the preferences localStorage holds
StoredKeys == {k \in SavedKeys : cStorage[k] # Absent}

\* C33: after loadConfiguration(), the locally stored speaker, microphone and
\* audioDevice take priority over what dashboard-config.json gives for the
\* same keys
C33_LocalOverRemote ==
    cPc = "loaded" => \A k \in StoredKeys : cAppConfig[k] = cStorage[k]

\* C38: a preference changed through a setter that calls saveLocalConfig()
\* survives a reload: after loadLocalConfig() in a fresh ConfigService the
\* matching getter returns what it returned after the setter
C38_PreferenceSurvivesReload ==
    (cPc = "fetching" /\ cLastSet.key # "none") =>
        Getter(cLastSet.key, cAppConfig) = cLastSet.got

(***************************************************************************)
(* Properties of the page application's reconnect counter and room field   *)
(***************************************************************************)

\* C34 (page application): connectionAttempts goes back to 0 only when a
\* connection succeeds or the user retries by hand: a step that resets a
\* positive counter is a resolved room.connect(), a click on Retry or the
\* leaveRoom() that retryConnection() awaits
C34_ResetOnlyOnSuccessOrRetry ==
    [][(connectionAttempts > 0 /\ connectionAttempts' = 0) =>
          \/ isConnected' /\ liveRooms' # liveRooms
          \/ retryClicks' # retryClicks
          \/ joins' # joins /\ lastJoinBy' = "retry"]_vars

\* C35 (page application): before any click on Retry, whenever isConnected
\* is true the field room is not null
C35_ConnectedHasRoom == (isConnected /\ retryClicks = 0) => room # Null

(***************************************************************************)
(* Properties of the reconnect counter of headless-launcher.js             *)
(***************************************************************************)

\* C36 (headless-launcher.js): in every reachable state
\* 0 <= reconnectAttempts <= maxReconnectAttempts, and a step that raises the
\* counter raises it by exactly one, from a value below the maximum
C36_ReconnectAttemptsBounded ==
    /\ [](reconnectAttempts \in 0..maxReconnectAttempts)
    /\ [][reconnectAttempts' > reconnectAttempts =>
             /\ reconnectAttempts' = reconnectAttempts + 1
             /\ reconnectAttempts < maxReconnectAttempts]_vars

\* C36 happens: the counter stands at a maximum of 2 while the process lives,
\* a monitor poll has called reconnect() and the retry timer of reconnect()'s
\* catch is armed
C36_Witness ==
    /\ hExit = Alive
    /\ maxReconnectAttempts = 2
    /\ reconnectAttempts = maxReconnectAttempts
    /\ lostPolls > 0
    /\ hTimers > 0

(***************************************************************************)
(* Properties of AudioStreamManager                                        *)
(***************************************************************************)

\* C37: for every stream the manager holds, the recorded isMuted equals the
\* muted flag of the stream's audio element
C37_MutedFlagMatchesElement ==
    \A id \in DOMAIN streams :
        streams[id].hasEl => streams[id].isMuted = streams[id].elMuted

\* C39: getStreamCount() is the number of ids added and not removed since;
\* addStream() of an id that is there and removeStream() of an id that is
\* not change nothing; clearAllStreams() leaves the count at 0
C39_StreamCount ==
    /\ [](getStreamCount(streams) = Cardinality(liveIds))
    /\ [][/\ (lastCall'.op = "addStream" /\ lastCall'.id \in DOMAIN streams)
                => streams' = streams
          /\ (lastCall'.op = "removeStream" /\ lastCall'.id \notin DOMAIN streams)
                => streams' = streams
          /\ lastCall'.op = "clearAllStreams"
                => getStreamCount(streams') = 0]_vars

\* C39 happens: an id that was there, muted, was added again while another
\* id is held
C39_Witness ==
    /\ lastCall.op = "addStream"
    /\ getStreamCount(streams) = 2
    /\ streams[lastCall.id].isMuted

\* C40: two toggleStreamMute() calls in a row on the same stream leave its
\* isMuted and the enabled state of its publication as they were before
C40_ToggleTwiceRestores ==
    (lastCall.op = "toggleStreamMute" /\ lastCall.twice) =>
        /\ streams[lastCall.id].isMuted = lastCall.orig.isMuted
        /\ streams[lastCall.id].enabled = lastCall.orig.enabled

====
